---------------------------- MODULE Spec2Model ----------------------------
(***************************************************************************)
(* Verification model of the crypto-price-predict feature pipeline:        *)
(*   - the target generator      (src/src/features/target_generator.py)    *)
(*   - the cleaning policy       (src/src/data/data_processor.py)          *)
(*   - the indicator engines     (src/src/features/technical_indicators.py *)
(*                                src/src/analyzer/technical_indicators.py)*)
(*   - the batch orchestrator    (src/main.py)                             *)
(*                                                                         *)
(* Floating-point cells are modelled by exact extended rationals n/d:      *)
(*   d > 0  an ordinary number, d = 0 /\ n = 0  NaN (pandas null),         *)
(*   d = 0 /\ n = 1  +inf,  d = 0 /\ n = -1  -inf.                         *)
(* The sign of a floating-point zero is not tracked.                       *)
(***************************************************************************)
EXTENDS Integers, Naturals, Sequences, FiniteSets, TLC

----------------------------------------------------------------------------
(* Extended rational arithmetic (IEEE-754 special values, exact otherwise) *)

Abs(i) == IF i < 0 THEN -i ELSE i

Sgn(i) == IF i < 0 THEN -1 ELSE IF i > 0 THEN 1 ELSE 0

RECURSIVE GCD(_, _)
GCD(a, b) == IF b = 0 THEN a ELSE GCD(b, a % b)

LCM(a, b) == (a \div GCD(a, b)) * b

Q(n, d) == [n |-> n, d |-> d]

NaN == Q(0, 0)

PInf == Q(1, 0)

NInf == Q(-1, 0)

Num(i) == Q(i, 1)

(* n/d with d # 0, reduced to lowest terms with a positive denominator *)
Norm(n, d) ==
    LET g == GCD(Abs(n), Abs(d))
        s == IF d < 0 THEN -1 ELSE 1
    IN  Q(s * (n \div g), s * (d \div g))

IsNaN(a) == a.d = 0 /\ a.n = 0

IsInf(a) == a.d = 0 /\ a.n # 0

IsFinite(a) == a.d > 0

IsZero(a) == a.d > 0 /\ a.n = 0

QNeg(a) == Q(-a.n, a.d)

QAdd(a, b) ==
    IF IsNaN(a) \/ IsNaN(b) THEN NaN
    ELSE IF IsInf(a) /\ IsInf(b) THEN (IF a.n = b.n THEN a ELSE NaN)
    ELSE IF IsInf(a) THEN a
    ELSE IF IsInf(b) THEN b
    ELSE LET l == LCM(a.d, b.d)
         IN  Norm(a.n * (l \div a.d) + b.n * (l \div b.d), l)

QSub(a, b) == QAdd(a, QNeg(b))

QMul(a, b) ==
    IF IsNaN(a) \/ IsNaN(b) THEN NaN
    ELSE IF IsInf(a) \/ IsInf(b)
         THEN (IF IsZero(a) \/ IsZero(b) THEN NaN ELSE Q(Sgn(a.n) * Sgn(b.n), 0))
    ELSE LET g1 == GCD(Abs(a.n), b.d)
             g2 == GCD(Abs(b.n), a.d)
         IN  Norm((a.n \div g1) * (b.n \div g2), (a.d \div g2) * (b.d \div g1))

QDiv(a, b) ==
    IF IsNaN(a) \/ IsNaN(b) THEN NaN
    ELSE IF IsInf(b) THEN (IF IsInf(a) THEN NaN ELSE Num(0))
    ELSE IF IsZero(b) THEN Q(Sgn(a.n), 0)
    ELSE IF IsInf(a) THEN Q(Sgn(a.n) * Sgn(b.n), 0)
    ELSE QMul(a, Norm(b.d, b.n))

(* a < b as a float comparison: FALSE whenever an operand is NaN *)
QLt(a, b) ==
    IF IsNaN(a) \/ IsNaN(b) THEN FALSE
    ELSE IF IsInf(a) THEN a.n = -1 /\ b # NInf
    ELSE IF IsInf(b) THEN b.n = 1
    ELSE a.n * b.d < b.n * a.d

QGt(a, b) == QLt(b, a)

----------------------------------------------------------------------------
(* pandas Series primitives on sequences of cells                          *)

Symbols == {"A", "B"}

(* a function on 1..n held as a tuple of its values *)
Tuple(f) == f \o <<>>

(* Series.shift(k): the value k rows earlier (k < 0: later), NaN outside *)
Shift(x, k) ==
    Tuple([i \in 1..Len(x) |-> IF i - k >= 1 /\ i - k <= Len(x) THEN x[i - k] ELSE NaN])

(* an observation of a window: the rolling aggregations replace +inf and   *)
(* -inf by NaN before they aggregate, so only a finite value counts        *)
IsObs(v) == IsFinite(v)

(* sum and count of the observations of x[lo..hi]; the sum is exact, so    *)
(* it is taken by halves                                                   *)
RECURSIVE SumObs(_, _, _)
SumObs(x, lo, hi) ==
    IF lo > hi THEN Num(0)
    ELSE IF lo = hi THEN (IF IsObs(x[lo]) THEN x[lo] ELSE Num(0))
    ELSE QAdd(SumObs(x, lo, (lo + hi) \div 2), SumObs(x, (lo + hi) \div 2 + 1, hi))

CountObs(x, lo, hi) == Cardinality({j \in lo..hi : IsObs(x[j])})

WinLo(i, w) == IF i - w + 1 < 1 THEN 1 ELSE i - w + 1

WindowMean(x, lo, hi) == QDiv(SumObs(x, lo, hi), Num(CountObs(x, lo, hi)))

(* Series.rolling(window=w, min_periods=minp).mean() *)
RollingMean(x, w, minp) ==
    Tuple([i \in 1..Len(x) |->
        IF CountObs(x, WinLo(i, w), i) >= minp /\ CountObs(x, WinLo(i, w), i) > 0
        THEN WindowMean(x, WinLo(i, w), i)
        ELSE NaN])

(* sum of squared deviations from m of the observations of x[lo..hi] *)
RECURSIVE SumSqDev(_, _, _, _)
SumSqDev(x, lo, hi, m) ==
    IF lo > hi THEN Num(0)
    ELSE IF lo = hi
         THEN (IF IsObs(x[lo]) THEN QMul(QSub(x[lo], m), QSub(x[lo], m)) ELSE Num(0))
    ELSE QAdd(SumSqDev(x, lo, (lo + hi) \div 2, m),
              SumSqDev(x, (lo + hi) \div 2 + 1, hi, m))

(* the square of Series.rolling(window=w, min_periods=minp).std(), ddof = 1: *)
(* the sample variance, NaN with fewer than minp or fewer than 2 observations *)
RollingVar(x, w, minp) ==
    Tuple([i \in 1..Len(x) |->
        LET lo == WinLo(i, w)
            nobs == CountObs(x, lo, i)
        IN  IF nobs >= minp /\ nobs > 1
            THEN QDiv(SumSqDev(x, lo, i, WindowMean(x, lo, i)), Num(nobs - 1))
            ELSE NaN])

(* the least / greatest observation of x[lo..hi] (one exists) *)
WindowMin(x, lo, hi) ==
    CHOOSE m \in {x[j] : j \in {j \in lo..hi : IsObs(x[j])}} :
        \A j \in {j \in lo..hi : IsObs(x[j])} : ~QLt(x[j], m)

WindowMax(x, lo, hi) ==
    CHOOSE m \in {x[j] : j \in {j \in lo..hi : IsObs(x[j])}} :
        \A j \in {j \in lo..hi : IsObs(x[j])} : ~QGt(x[j], m)

(* Series.rolling(window=w).min() and .max(): min_periods = w *)
RollingMin(x, w) ==
    Tuple([i \in 1..Len(x) |->
        IF CountObs(x, WinLo(i, w), i) >= w THEN WindowMin(x, WinLo(i, w), i) ELSE NaN])

RollingMax(x, w) ==
    Tuple([i \in 1..Len(x) |->
        IF CountObs(x, WinLo(i, w), i) >= w THEN WindowMax(x, WinLo(i, w), i) ELSE NaN])

(* Series.diff() *)
Diff(x) == Tuple([i \in 1..Len(x) |-> IF i = 1 THEN NaN ELSE QSub(x[i], x[i - 1])])

(* Series.ewm(span=span, adjust=False).mean(): alpha = 2 / (span + 1),     *)
(* seeded at the first observation; a missing input (a null, or an         *)
(* infinite value, which the window replaces by a null before it           *)
(* aggregates) repeats the last average and ages its weight                *)
(* (ignore_na = False).  st = <<average, old weight>>                      *)
EwmAlpha(span) == Norm(2, span + 1)

(* the (average, old_wt) pair after the input cur, from the pair st that   *)
(* was there before it                                                     *)
EwmStep(st, cur, span) ==
    LET avg == st[1]
        aged == QMul(st[2], QSub(Num(1), EwmAlpha(span)))
    IN  IF IsNaN(avg) THEN <<IF IsObs(cur) THEN cur ELSE NaN, Num(1)>>
        ELSE IF ~IsObs(cur) THEN <<avg, aged>>
        ELSE <<QDiv(QAdd(QMul(aged, avg), QMul(EwmAlpha(span), cur)),
                    QAdd(aged, EwmAlpha(span))),
               Num(1)>>

(* the pairs after each of the observations x[lo..hi], from the pair st    *)
(* before x[lo]: the first half, then the second from where the first ends *)
RECURSIVE EwmState(_, _, _, _, _)
EwmState(x, span, lo, hi, st) ==
    IF lo > hi THEN <<>>
    ELSE IF lo = hi THEN <<EwmStep(st, x[lo], span)>>
    ELSE LET first == EwmState(x, span, lo, (lo + hi) \div 2, st)
         IN  first \o EwmState(x, span, (lo + hi) \div 2 + 1, hi, first[Len(first)])

Ewm(x, span) ==
    LET st == EwmState(x, span, 1, Len(x), <<NaN, Num(1)>>)
    IN  Tuple([i \in 1..Len(x) |-> st[i][1]])

----------------------------------------------------------------------------
(* DataFrames: [cols |-> set of column keys, rows |-> sequence of rows];   *)
(* a row is [idx |-> index label, c |-> [column key -> cell]].  A column   *)
(* key is <<name, h>>: h = 0 for a plain column, h the horizon of a        *)
(* per-horizon column ("return", 3 stands for return_3d).                  *)

VARIABLES df, res, op

(* a second input table and its result, for properties that relate two runs *)
VARIABLES df2, res2, vary

(* state of the batch run of main(): see the orchestrator section *)
VARIABLES pc, selected, pos, crypto_name, collab, outcome, errorLog

(* what a run of main.py finds around it: see the orchestrator section *)
VARIABLES deployment

Key(name) == <<name, 0>>

cSymbol == Key("symbol")

cDate == Key("date")

cClose == Key("close")

cVolume == Key("volume")

Column(rows, k) == Tuple([i \in 1..Len(rows) |-> rows[i].c[k]])

(* cells of the symbol, date and dates columns are labels, never null *)
IsNull(k, v) == k \notin {cSymbol, cDate, Key("dates")} /\ IsNaN(v)

(* the row positions of the group of row i, in table order *)
RECURSIVE GroupIdx(_, _, _)
GroupIdx(rows, sym, n) ==
    IF n = 0 THEN <<>>
    ELSE IF rows[n].c[cSymbol] = sym
         THEN Append(GroupIdx(rows, sym, n - 1), n)
         ELSE GroupIdx(rows, sym, n - 1)

GroupOf(rows, i) == GroupIdx(rows, rows[i].c[cSymbol], Len(rows))

(* position of row i inside its group *)
GroupPos(rows, i) == Len(GroupIdx(rows, rows[i].c[cSymbol], i))

GroupSeries(rows, k, i) ==
    LET g == GroupOf(rows, i) IN Tuple([j \in 1..Len(g) |-> rows[g[j]].c[k]])

(* the first row of each group, in order of appearance *)
RECURSIVE FirstOfGroup(_, _)
FirstOfGroup(rows, n) ==
    IF n = 0 THEN <<>>
    ELSE IF GroupPos(rows, n) = 1 THEN Append(FirstOfGroup(rows, n - 1), n)
         ELSE FirstOfGroup(rows, n - 1)

(* the series of column k of each group, groups in order of appearance *)
Groups(rows, k) ==
    LET first == FirstOfGroup(rows, Len(rows))
    IN  Tuple([g \in 1..Len(first) |-> GroupSeries(rows, k, first[g])])

(* df.groupby('symbol')[k].transform(f), given out[g] = f(Groups(rows, k)[g]) *)
(* for each group g: the results put back at the rows they came from       *)
GroupTransform(rows, out) ==
    LET first == FirstOfGroup(rows, Len(rows))
        groupNo(i) == CHOOSE g \in 1..Len(first) :
                          rows[first[g]].c[cSymbol] = rows[i].c[cSymbol]
    IN  Tuple([i \in 1..Len(rows) |-> out[groupNo(i)][GroupPos(rows, i)]])

(* df[k] = vals for every (k, vals) of the function newcols *)
WithColumns(t, newcols) ==
    [cols |-> t.cols \cup DOMAIN newcols,
     rows |-> Tuple([i \in 1..Len(t.rows) |->
                 [idx |-> t.rows[i].idx,
                  c |-> [k \in t.cols \cup DOMAIN newcols |->
                            IF k \in DOMAIN newcols THEN newcols[k][i]
                            ELSE t.rows[i].c[k]]]])]

(* df[mask]: the rows whose mask cell is true, in order, index labels kept *)
RECURSIVE FilterRange(_, _, _, _)
FilterRange(rows, mask, lo, hi) ==
    IF lo > hi THEN <<>>
    ELSE IF lo = hi THEN (IF mask[lo] THEN <<rows[lo]>> ELSE <<>>)
    ELSE FilterRange(rows, mask, lo, (lo + hi) \div 2)
         \o FilterRange(rows, mask, (lo + hi) \div 2 + 1, hi)

FilterRows(rows, mask, n) == FilterRange(rows, mask, 1, n)

----------------------------------------------------------------------------
(* Target generator *)

(* a cell a + sign(r) * sqrt(|r|): n/d is a, rn/rd the signed radicand r *)
Surd(a, r) == [n |-> a.n, d |-> a.d, rn |-> r.n, rd |-> r.d]

(* rolling std / rolling mean, from the rolling variance and mean *)
StdOverMean(var, mean) ==
    IF IsNaN(var) \/ IsNaN(mean) THEN Surd(NaN, Num(0))
    ELSE IF IsZero(mean)
         THEN (IF IsZero(var) THEN Surd(NaN, Num(0)) ELSE Surd(PInf, Num(0)))
    ELSE LET r == QDiv(var, QMul(mean, mean))
         IN  Surd(Num(0), IF mean.n < 0 THEN QNeg(r) ELSE r)

(* the shift taken over the whole table instead of per instrument *)
FuturePriceUngrouped(rows, h) == Shift(Column(rows, cClose), -h)

FuturePrice(rows, h) ==
    LET x == Groups(rows, cClose)
    IN  GroupTransform(rows, Tuple([g \in DOMAIN x |-> Shift(x[g], -h)]))

Return(fp, close) == QDiv(QSub(fp, close), close)

Direction(fp, close) == IF QGt(fp, close) THEN Num(1) ELSE Num(0)

(* as Volatility, with the population standard deviation: 0 for a window  *)
(* of one row                                                              *)
VolatilityPopulation(rows, h) ==
    LET x == Groups(rows, cClose)
        ratio(s) == LET var == IF h = 1
                               THEN Tuple([i \in 1..Len(s) |-> IF IsNaN(s[i]) THEN NaN ELSE Num(0)])
                               ELSE RollingVar(s, h, h)
                        mean == RollingMean(s, h, h)
                    IN  Tuple([i \in 1..Len(s) |-> StdOverMean(var[i], mean[i])])
    IN  GroupTransform(rows, Tuple([g \in DOMAIN x |-> ratio(x[g])]))

Volatility(rows, h) ==
    LET x == Groups(rows, cClose)
        ratio(s) == LET var == RollingVar(s, h, h)
                        mean == RollingMean(s, h, h)
                    IN  Tuple([i \in 1..Len(s) |-> StdOverMean(var[i], mean[i])])
    IN  GroupTransform(rows, Tuple([g \in DOMAIN x |-> ratio(x[g])]))

(* one iteration of the loop over prediction_horizons *)
AddHorizon(t, h) ==
    LET n == Len(t.rows)
        fp == FuturePrice(t.rows, h)
        close == Column(t.rows, cClose)
    IN  WithColumns(t,
          (<<"future_price", h>> :> fp) @@
          (<<"return", h>> :> Tuple([i \in 1..n |-> Return(fp[i], close[i])])) @@
          (<<"direction", h>> :> Tuple([i \in 1..n |-> Direction(fp[i], close[i])])) @@
          (<<"volatility", h>> :> Volatility(t.rows, h)))

RECURSIVE add_targets(_, _)
add_targets(t, prediction_horizons) ==
    IF prediction_horizons = <<>> THEN t
    ELSE add_targets(AddHorizon(t, Head(prediction_horizons)),
                     Tail(prediction_horizons))

----------------------------------------------------------------------------
(* Cleaning policy *)

RawColumns == {Key("symbol"), Key("date"), Key("open"), Key("high"),
               Key("low"), Key("close"), Key("volume")}

technical_columns(t) == t.cols \ RawColumns

ValidClose(r) == QGt(r.c[cClose], Num(0))

ValidVolume(r) == QGt(r.c[cVolume], Num(0))

(* df = df[df['close'] > 0]; df = df[df['volume'] > 0] *)
RemoveInvalid(t) ==
    LET a == FilterRows(t.rows, Tuple([i \in 1..Len(t.rows) |-> ValidClose(t.rows[i])]),
                        Len(t.rows))
    IN  [cols |-> t.cols,
         rows |-> FilterRows(a, Tuple([i \in 1..Len(a) |-> ValidVolume(a[i])]), Len(a))]

(* the last non-null cell of column k at or above row i, null if none *)
RECURSIVE FillFrom(_, _, _)
FillFrom(rows, k, i) ==
    IF i < 1 THEN 0
    ELSE IF IsNull(k, rows[i].c[k]) THEN FillFrom(rows, k, i - 1) ELSE i

(* the technical columns taken from the row above, filled or not *)
ForwardFillShifted(t) ==
    [cols |-> t.cols,
     rows |-> Tuple([i \in 1..Len(t.rows) |->
                 [idx |-> t.rows[i].idx,
                  c |-> [k \in t.cols |->
                            IF k \in technical_columns(t)
                            THEN (IF i > 1 THEN t.rows[i - 1].c[k] ELSE NaN)
                            ELSE t.rows[i].c[k]]]])]

(* df[technical_columns] = df[technical_columns].fillna(method='ffill') *)
ForwardFill(t) ==
    [cols |-> t.cols,
     rows |-> Tuple([i \in 1..Len(t.rows) |->
                 [idx |-> t.rows[i].idx,
                  c |-> [k \in t.cols |->
                            IF k \in technical_columns(t) /\ FillFrom(t.rows, k, i) > 0
                            THEN t.rows[FillFrom(t.rows, k, i)].c[k]
                            ELSE t.rows[i].c[k]]]])]

NoNulls(r) == \A k \in DOMAIN r.c : ~IsNull(k, r.c[k])

(* df.dropna() *)
DropNa(t) ==
    [cols |-> t.cols,
     rows |-> FilterRows(t.rows, Tuple([i \in 1..Len(t.rows) |-> NoNulls(t.rows[i])]),
                         Len(t.rows))]

clean_data(t) == DropNa(ForwardFill(RemoveInvalid(t)))

----------------------------------------------------------------------------
(* Inputs of the target generator and of the cleaning policy *)

MaxRows == 3

MaxHorizon == 3

MaxClose == 2

(* close cells of a raw table: a missing value, a zero price, positive prices *)
TargetCloses == {NaN} \cup {Num(v) : v \in 0..MaxClose}

(* row order against the timestamps: ascending or descending *)
DateOrders == {"asc", "desc"}

DateAt(order, i, n) == IF order = "asc" THEN i ELSE n + 1 - i

RawRow(i, sym, date, close, volume) ==
    [idx |-> i - 1,
     c |-> (cSymbol :> sym) @@ (cDate :> date) @@ (cClose :> close) @@
           (cVolume :> volume)]

RawCols == {cSymbol, cDate, cClose, cVolume}

TargetTable(n, syms, closes, order) ==
    [cols |-> RawCols,
     rows |-> Tuple([i \in 1..n |->
                 RawRow(i, syms[i], DateAt(order, i, n), closes[i], Num(1))])]

HorizonLists == {<<h>> : h \in 1..MaxHorizon} \cup {<<1, MaxHorizon>>}

Loaded == [name |-> "load", args |-> <<>>]

vars == <<df, res, op, df2, res2, vary, pc, selected, pos, crypto_name, collab, outcome, errorLog,
          deployment>>

orchVars == <<pc, selected, pos, crypto_name, collab, outcome, errorLog, deployment>>

tableVars == <<df, res, op, df2, res2, vary>>

EmptyTable == [cols |-> {}, rows |-> <<>>]

(* no table: the value of a call that returned None or raised *)
None == EmptyTable

NoVary == [kind |-> "none", sym |-> "", cut |-> 0]

(* no second run *)
NoVariant == df2 = EmptyTable /\ res2 = EmptyTable /\ vary = NoVary

(* the repository as it is: the modules that lines 6, 9 and 10 of main.py  *)
(* import (src.visualizer.wikipedia_visualizer,                            *)
(* src.data.google_trends_fetcher, src.visualizer.google_trends_visualizer) *)
(* are not among its files, and Config sets no LOG_PATH                    *)
AsRepository == [modules |-> FALSE, log_path |-> FALSE]

(* no batch run in progress *)
NoBatch ==
    /\ pc = "idle"
    /\ selected = <<>>
    /\ pos = 0
    /\ crypto_name = "unset"
    /\ collab = [wiki |-> "unset", trends |-> "unset"]
    /\ outcome = <<>>
    /\ errorLog = <<>>
    /\ deployment = AsRepository

InitTargets ==
    /\ \E n \in 0..MaxRows : \E syms \in [1..n -> Symbols] :
       \E closes \in [1..n -> TargetCloses] : \E order \in DateOrders :
          df = TargetTable(n, syms, closes, order)
    /\ res = df
    /\ op = Loaded
    /\ NoVariant
    /\ NoBatch

(* res = TargetGenerator.add_targets(df, hs) *)
AddTargets ==
    /\ op.name = "load"
    /\ \E hs \in HorizonLists :
          /\ res' = add_targets(df, hs)
          /\ op' = [name |-> "add_targets", args |-> hs]
    /\ UNCHANGED <<df, df2, res2, vary, orchVars>>

(* the pipeline's next stage: res = clean_data(add_targets(df, hs)) *)
CleanTargets ==
    /\ op.name = "add_targets"
    /\ res' = clean_data(res)
    /\ op' = [name |-> "clean_targets", args |-> op.args]
    /\ UNCHANGED <<df, df2, res2, vary, orchVars>>

NextTargets == AddTargets \/ CleanTargets

SpecTargets == InitTargets /\ [][NextTargets]_vars

----------------------------------------------------------------------------
(* Properties of the target generator (SpecTargets) *)

TargetsDone == op.name = "add_targets"

Horizons == {op.args[k] : k \in 1..Len(op.args)}

Cell(t, i, name, h) == t.rows[i].c[<<name, h>>]

(* rows of the input table that belong to the instrument of row i and come *)
(* after it in the table *)
LaterSame(i) ==
    {j \in (i + 1)..Len(df.rows) : df.rows[j].c[cSymbol] = df.rows[i].c[cSymbol]}

(* the row h places after row i inside its instrument group, 0 if none *)
HthLater(i, h) ==
    IF \E j \in LaterSame(i) : Cardinality({k \in LaterSame(i) : k <= j}) = h
    THEN CHOOSE j \in LaterSame(i) : Cardinality({k \in LaterSame(i) : k <= j}) = h
    ELSE 0

FuturePriceIsShift(h, i) ==
    IF HthLater(i, h) > 0
    THEN Cell(res, i, "future_price", h) = df.rows[HthLater(i, h)].c[cClose]
    ELSE IsNaN(Cell(res, i, "future_price", h))

IsNumber(q) == IsFinite(q) /\ ~IsZero(q)

(* C5 as stated: future_price_hd is the close h rows later in the same      *)
(* group, null for the last h rows; return_hd is (future_price_hd -         *)
(* close)/close and null exactly where future_price_hd is null.             *)
C5_Original ==
    TargetsDone =>
        \A h \in Horizons : \A i \in 1..Len(res.rows) :
            /\ FuturePriceIsShift(h, i)
            /\ IsNaN(Cell(res, i, "return", h)) <=> IsNaN(Cell(res, i, "future_price", h))

(* C5 amended: future_price_hd is the close h rows later in the same group, *)
(* null for the last h rows of the group; return_hd is null wherever        *)
(* future_price_hd is null, and at a row whose own close is a non-zero      *)
(* number it is null nowhere else and satisfies                             *)
(* return_hd * close = future_price_hd - close.                             *)
C5_FuturePriceShift ==
    TargetsDone =>
        \A h \in Horizons : \A i \in 1..Len(res.rows) :
            LET fp == Cell(res, i, "future_price", h)
                ret == Cell(res, i, "return", h)
                close == df.rows[i].c[cClose]
            IN  /\ FuturePriceIsShift(h, i)
                /\ IsNaN(fp) => IsNaN(ret)
                /\ (IsNumber(close) /\ ~IsNaN(fp)) =>
                      /\ IsFinite(ret)
                      /\ QMul(ret, close) = QSub(fp, close)

(* a table of two interleaved instruments where one row has a future price *)
(* and a non-zero return and a later row of the same group has none         *)
C5_Witness ==
    /\ TargetsDone
    /\ \E h \in Horizons : \E i \in 1..Len(res.rows) :
          /\ HthLater(i, h) > i + h
          /\ IsNumber(Cell(res, i, "return", h))
          /\ \E j \in LaterSame(i) : IsNaN(Cell(res, j, "future_price", h))

(* C6: whenever future_price_hd is non-null it is the close of a row of the *)
(* same instrument with a strictly later timestamp, whatever the row order. *)
C6_FutureIsLater ==
    TargetsDone =>
        \A h \in Horizons : \A i \in 1..Len(res.rows) :
            ~IsNaN(Cell(res, i, "future_price", h)) =>
                \E j \in 1..Len(df.rows) :
                    /\ df.rows[j].c[cSymbol] = df.rows[i].c[cSymbol]
                    /\ df.rows[j].c[cDate] > df.rows[i].c[cDate]
                    /\ df.rows[j].c[cClose] = Cell(res, i, "future_price", h)

TargetNames == {"future_price", "return", "direction", "volatility"}

(* the input table with the close of row j replaced by v *)
WithClose(t, j, v) ==
    [cols |-> t.cols,
     rows |-> Tuple([i \in 1..Len(t.rows) |->
                 IF i = j THEN [idx |-> t.rows[i].idx,
                                c |-> [t.rows[i].c EXCEPT ![cClose] = v]]
                 ELSE t.rows[i]])]

(* C7: every target column is null at a row with no row h places later in  *)
(* its group, and does not change when a row before it is modified.         *)
C7_TargetsNeedFuture ==
    TargetsDone =>
        \A h \in Horizons : \A i \in 1..Len(res.rows) : \A name \in TargetNames :
            /\ HthLater(i, h) = 0 => IsNaN(Cell(res, i, name, h))
            /\ \A j \in 1..(i - 1) : \A v \in TargetCloses :
                  Cell(add_targets(WithClose(df, j, v), op.args), i, name, h)
                      = Cell(res, i, name, h)

(* C8: direction_hd is 1 where return_hd > 0, 0 where return_hd is non-null *)
(* and <= 0, and null where return_hd is null.                              *)
C8_DirectionFollowsReturn ==
    TargetsDone =>
        \A h \in Horizons : \A i \in 1..Len(res.rows) :
            LET ret == Cell(res, i, "return", h)
                dir == Cell(res, i, "direction", h)
            IN  /\ QGt(ret, Num(0)) => dir = Num(1)
                /\ (~IsNaN(ret) /\ ~QGt(ret, Num(0))) => dir = Num(0)
                /\ IsNaN(ret) => IsNaN(dir)

----------------------------------------------------------------------------
(* Inputs of the cleaning policy: raw rows with one indicator column that  *)
(* may hold nulls (an indicator is null until its window is complete)      *)

MaxCleanRows == 3

cRsi == Key("rsi")

(* <<close, volume>> of a row: valid, zero volume, negative volume, zero price *)
CleanBars == {<<Num(1), Num(1)>>, <<Num(1), Num(0)>>, <<Num(1), Num(-1)>>,
              <<Num(0), Num(1)>>}

IndicatorCells == {NaN, Num(1), Num(2)}

CleanTable(n, syms, bars, inds) ==
    [cols |-> RawCols \cup {cRsi},
     rows |-> Tuple([i \in 1..n |->
                 [idx |-> i - 1,
                  c |-> RawRow(i, syms[i], i, bars[i][1], bars[i][2]).c @@
                        (cRsi :> inds[i])]])]

InitClean ==
    /\ \E n \in 0..MaxCleanRows : \E syms \in [1..n -> Symbols] :
       \E bars \in [1..n -> CleanBars] : \E inds \in [1..n -> IndicatorCells] :
          df = CleanTable(n, syms, bars, inds)
    /\ res = df
    /\ op = Loaded
    /\ NoVariant
    /\ NoBatch

(* res = DataProcessor.clean_data(df) *)
CleanData ==
    /\ op.name = "load"
    /\ res' = clean_data(df)
    /\ op' = [name |-> "clean_data", args |-> <<>>]
    /\ UNCHANGED <<df, df2, res2, vary, orchVars>>

(* res2 = DataProcessor.clean_data(res): the cleaned table cleaned again *)
CleanAgain ==
    /\ op.name = "clean_data"
    /\ res2' = clean_data(res)
    /\ op' = [name |-> "clean_data_again", args |-> <<>>]
    /\ UNCHANGED <<df, res, df2, vary, orchVars>>

NextClean == CleanData \/ CleanAgain

SpecClean == InitClean /\ [][NextClean]_vars

----------------------------------------------------------------------------
(* Properties of the cleaning policy (SpecClean) *)

CleanDone == op.name \in {"clean_data", "clean_data_again"}

CleanedTwice == op.name = "clean_data_again"

(* the input row carrying index label x *)
InputRow(x) == df.rows[x + 1]

Kept(i) == \E m \in 1..Len(res.rows) : res.rows[m].idx = df.rows[i].idx

(* earlier rows of the instrument of row i that pass the validity filters  *)
(* and hold a value in column k                                            *)
FillSources(i, k) ==
    {j \in 1..(i - 1) :
        /\ df.rows[j].c[cSymbol] = df.rows[i].c[cSymbol]
        /\ ValidClose(df.rows[j]) /\ ValidVolume(df.rows[j])
        /\ ~IsNull(k, df.rows[j].c[k])}

SetMax(S) == CHOOSE x \in S : \A y \in S : y <= x

(* C9: a null of an indicator/target column is filled only from an earlier *)
(* row of the same instrument, never from a row of another instrument.     *)
C9_FillWithinInstrument ==
    CleanDone =>
        \A m \in 1..Len(res.rows) : \A k \in technical_columns(df) :
            LET i == res.rows[m].idx + 1
            IN  IsNull(k, df.rows[i].c[k]) =>
                    /\ FillSources(i, k) # {}
                    /\ res.rows[m].c[k] = df.rows[SetMax(FillSources(i, k))].c[k]

(* C10: a row without nulls is retained when close > 0 and volume >= 0     *)
(* (volume = 0 included), and every retained row has close > 0 and         *)
(* volume >= 0.                                                            *)
C10_DropsOnlyInvalid ==
    CleanDone =>
        /\ \A i \in 1..Len(df.rows) :
              ( /\ NoNulls(df.rows[i])
                /\ QGt(df.rows[i].c[cClose], Num(0))
                /\ ~QLt(df.rows[i].c[cVolume], Num(0)) ) => Kept(i)
        /\ \A m \in 1..Len(res.rows) :
              /\ QGt(res.rows[m].c[cClose], Num(0))
              /\ ~QLt(res.rows[m].c[cVolume], Num(0))

(* C11: clean_data is idempotent - cleaning the cleaned table gives the    *)
(* same rows, in the same order, with the same values and index labels     *)
C11_CleanIdempotent == CleanedTwice => res2 = res

(* C11 witness: a table cleaned twice whose first cleaning removed a row,  *)
(* filled a null indicator cell and kept at least two rows                 *)
C11_Witness ==
    /\ CleanedTwice
    /\ Len(res.rows) >= 2
    /\ Len(res.rows) < Len(df.rows)
    /\ \E m \in 1..Len(res.rows) :
          /\ IsNaN(InputRow(res.rows[m].idx).c[cRsi])
          /\ ~IsNaN(res.rows[m].c[cRsi])

(* the table as it stands after the forward fill, before rows are dropped *)
Filled == ForwardFill(RemoveInvalid(df))

(* C12: whatever set of columns the caller designates as required, a row   *)
(* that after the forward fill has no null in a required column is         *)
(* retained, its remaining nulls being in non-required columns only        *)
C12_DropsOnlyRequiredNulls ==
    CleanDone =>
        \A required \in SUBSET df.cols : \A i \in 1..Len(Filled.rows) :
            (\A k \in required : ~IsNull(k, Filled.rows[i].c[k]))
            => \E m \in 1..Len(res.rows) : res.rows[m].idx = Filled.rows[i].idx

----------------------------------------------------------------------------
(* Indicator engine of the analyzer: TechnicalAnalysis.  Every function    *)
(* reads the columns of the table it is given in row order, without        *)
(* grouping; main() hands it the rows of one instrument.                   *)

cHigh == Key("high")

cLow == Key("low")

(* as calculate_sma, under rolling(window=period, min_periods=1) *)
calculate_smaMinPeriods(rows, period) == RollingMean(Column(rows, cClose), period, 1)

calculate_sma(rows, period) == RollingMean(Column(rows, cClose), period, period)

calculate_ema(rows, period) == Ewm(Column(rows, cClose), period)

(* as Gain, with the null delta of the first row kept null *)
GainKeepNull(delta) == Tuple([i \in 1..Len(delta) |-> IF IsNaN(delta[i]) THEN NaN ELSE IF QGt(delta[i], Num(0)) THEN delta[i] ELSE Num(0)])

(* delta.where(delta > 0, 0) and -delta.where(delta < 0, 0) *)
Gain(delta) == Tuple([i \in 1..Len(delta) |-> IF QGt(delta[i], Num(0)) THEN delta[i] ELSE Num(0)])

(* as Loss, without the change of sign *)
LossSigned(delta) == Tuple([i \in 1..Len(delta) |-> IF QLt(delta[i], Num(0)) THEN delta[i] ELSE Num(0)])

Loss(delta) == Tuple([i \in 1..Len(delta) |-> IF QLt(delta[i], Num(0)) THEN QNeg(delta[i]) ELSE Num(0)])

(* as RsiOf, with a zero avg_loss giving null whatever avg_gain *)
RsiOfNullOnZeroLoss(avg_gain, avg_loss) ==
    IF avg_loss = Num(0) THEN NaN
    ELSE QSub(Num(100), QDiv(Num(100), QAdd(Num(1), QDiv(avg_gain, avg_loss))))

(* 100 - (100 / (1 + rs)) *)
RsiOf(avg_gain, avg_loss) ==
    QSub(Num(100), QDiv(Num(100), QAdd(Num(1), QDiv(avg_gain, avg_loss))))

calculate_rsi(rows, period) ==
    LET delta == Diff(Column(rows, cClose))
        avg_gain == RollingMean(Gain(delta), period, period)
        avg_loss == RollingMean(Loss(delta), period, period)
    IN  Tuple([i \in 1..Len(rows) |-> RsiOf(avg_gain[i], avg_loss[i])])

SeqSub(x, y) == Tuple([i \in 1..Len(x) |-> QSub(x[i], y[i])])

(* the columns MACD, Signal, Histogram *)
calculate_macd(rows, fast_period, slow_period, signal_period) ==
    LET macd_line == SeqSub(Ewm(Column(rows, cClose), fast_period),
                            Ewm(Column(rows, cClose), slow_period))
        signal_line == Ewm(macd_line, signal_period)
    IN  [MACD |-> macd_line, Signal |-> signal_line,
         Histogram |-> SeqSub(macd_line, signal_line)]

(* mean + k * std, with std the square root of var; k may be negative *)
MeanPlusStd(mean, var, k) ==
    IF IsNaN(mean) \/ IsNaN(var) THEN Surd(NaN, Num(0))
    ELSE Surd(mean, QMul(Num(Sgn(k) * k * k), var))

(* the columns Middle, Upper, Lower *)
calculate_bollinger_bands(rows, period, std_dev) ==
    LET sma == RollingMean(Column(rows, cClose), period, period)
        var == RollingVar(Column(rows, cClose), period, period)
    IN  [Middle |-> sma,
         Upper |-> Tuple([i \in 1..Len(rows) |-> MeanPlusStd(sma[i], var[i], std_dev)]),
         Lower |-> Tuple([i \in 1..Len(rows) |-> MeanPlusStd(sma[i], var[i], -std_dev)])]

(* the columns K, D *)
calculate_stochastic_oscillator(rows, k_period, d_period) ==
    LET low_min == RollingMin(Column(rows, cLow), k_period)
        high_max == RollingMax(Column(rows, cHigh), k_period)
        close == Column(rows, cClose)
        k == Tuple([i \in 1..Len(rows) |->
                 QMul(Num(100), QDiv(QSub(close[i], low_min[i]),
                                     QSub(high_max[i], low_min[i])))])
    IN  [K |-> k, D |-> RollingMean(k, d_period, d_period)]

(* calculate_all_indicators: periods 20 and 50 for the SMA columns and 20  *)
(* for EMA_20 are passed as literals, the other functions run with their   *)
(* defaults (rsi 14, macd 12/26/9, bands 20 x 2, stochastic 14/3); one     *)
(* column per indicator, added to a copy of the data                       *)
calculate_all_indicators(t) ==
    LET macd_data == calculate_macd(t.rows, 12, 26, 9)
        bb_data == calculate_bollinger_bands(t.rows, 20, 2)
        stoch_data == calculate_stochastic_oscillator(t.rows, 14, 3)
    IN  WithColumns(t,
          (Key("SMA_20") :> calculate_sma(t.rows, 20)) @@
          (Key("SMA_50") :> calculate_sma(t.rows, 50)) @@
          (Key("EMA_20") :> calculate_ema(t.rows, 20)) @@
          (Key("RSI") :> calculate_rsi(t.rows, 14)) @@
          (Key("MACD") :> macd_data.MACD) @@
          (Key("MACD_Signal") :> macd_data.Signal) @@
          (Key("MACD_Histogram") :> macd_data.Histogram) @@
          (Key("BB_Middle") :> bb_data.Middle) @@
          (Key("BB_Upper") :> bb_data.Upper) @@
          (Key("BB_Lower") :> bb_data.Lower) @@
          (Key("Stoch_K") :> stoch_data.K) @@
          (Key("Stoch_D") :> stoch_data.D))

----------------------------------------------------------------------------
(* Indicator engine of the feature pipeline:                               *)
(* TechnicalIndicators.add_all_indicators                                  *)

(* df.sort_values('date'): rows in ascending date; ties stay in table      *)
(* order, which is what the default quicksort does on tables this short    *)
DateRank(rows, i) ==
    Cardinality({j \in 1..Len(rows) :
        \/ rows[j].c[cDate] < rows[i].c[cDate]
        \/ (rows[j].c[cDate] = rows[i].c[cDate] /\ j <= i)})

SortByDate(t) ==
    [cols |-> t.cols,
     rows |-> Tuple([r \in 1..Len(t.rows) |->
                 t.rows[CHOOSE i \in 1..Len(t.rows) : DateRank(t.rows, i) = r]])]

MaColumn(rows, period) ==
    LET x == Groups(rows, cClose)
    IN  GroupTransform(rows, Tuple([g \in DOMAIN x |-> RollingMean(x[g], period, 1)]))

RECURSIVE MaColumns(_, _)
MaColumns(rows, ma_periods) ==
    IF ma_periods = <<>> THEN <<>>
    ELSE (<<"ma", Head(ma_periods)>> :> MaColumn(rows, Head(ma_periods)))
         @@ MaColumns(rows, Tail(ma_periods))

(* add_all_indicators: after the moving averages the RSI block takes the   *)
(* DataFrame that df.groupby('symbol').transform(...) returns and calls it *)
(* as a function, which raises for every table and every parameter.  The   *)
(* function returns no table, and its MACD, Bollinger and momentum         *)
(* statements are never reached.                                           *)
add_all_indicators(t, ma_periods, rsi_period, macd_params) == None

----------------------------------------------------------------------------
(* Inputs of the indicator engines: tables of daily bars of one or two     *)
(* instruments, each instrument's rows on consecutive dates in table order *)
(* from the date of its first bar                                          *)

MaxLen == 3

MaxStart == 2

LongLen == 51

(* <<close, low, high>> with low <= close <= high *)
Bars == {<<Num(1), Num(1), Num(1)>>, <<Num(1), Num(1), Num(2)>>,
         <<Num(2), Num(1), Num(2)>>}

FeatureCols == {cSymbol, cDate, cClose, cLow, cHigh}

FeatureRow(label, sym, date, bar) ==
    [idx |-> label,
     c |-> (cSymbol :> sym) @@ (cDate :> date) @@ (cClose :> bar[1]) @@
           (cLow :> bar[2]) @@ (cHigh :> bar[3])]

FeatureTable(n, syms, bars, start) ==
    [cols |-> FeatureCols,
     rows |-> Tuple([i \in 1..n |->
                 FeatureRow(i - 1, syms[i],
                            start[syms[i]] - 1
                              + Cardinality({j \in 1..i : syms[j] = syms[i]}),
                            bars[i])])]

StartDates == {("A" :> 1) @@ ("B" :> b) : b \in 1..MaxStart}

(* a series long enough for the 50-row average: the same bar at every row  *)
(* but the last, which varies; read_csv reads 'inf' as an infinite value   *)
LongBars == {<<Num(1), Num(1), Num(1)>>, <<Num(2), Num(1), Num(2)>>,
             <<PInf, Num(1), PInf>>}

LongTable(last) ==
    FeatureTable(LongLen, Tuple([i \in 1..LongLen |-> "A"]),
        Tuple([i \in 1..LongLen |->
            IF i = LongLen THEN last ELSE <<Num(1), Num(1), Num(2)>>]),
        ("A" :> 1) @@ ("B" :> 1))

InitFeatures ==
    /\ \/ \E n \in 0..MaxLen : \E syms \in [1..n -> Symbols] :
          \E bars \in [1..n -> Bars] : \E start \in StartDates :
             df = FeatureTable(n, syms, bars, start)
       \/ \E last \in LongBars : df = LongTable(last)
    /\ res = df
    /\ op = Loaded
    /\ NoVariant
    /\ NoBatch

SymbolsOf(t) == {t.rows[i].c[cSymbol] : i \in 1..Len(t.rows)}

(* the date of the last bar of sym, 0 when it has none *)
LastDate(t, sym) ==
    SetMax({0} \cup {t.rows[i].c[cDate] : i \in {j \in 1..Len(t.rows) :
                                                  t.rows[j].c[cSymbol] = sym}})

BarOf(r) == <<r.c[cClose], r.c[cLow], r.c[cHigh]>>

WithBar(t, u, bar) ==
    [cols |-> t.cols,
     rows |-> Tuple([i \in 1..Len(t.rows) |->
                 IF i = u
                 THEN FeatureRow(t.rows[i].idx, t.rows[i].c[cSymbol],
                                 t.rows[i].c[cDate], bar)
                 ELSE t.rows[i]])]

Varying == op.name = "load" /\ vary.kind = "none"

(* second run: one bar of an instrument is different *)
EditFuture ==
    /\ Varying
    /\ \E u \in 1..Len(df.rows) : \E bar \in Bars \ {BarOf(df.rows[u])} :
          /\ df2' = WithBar(df, u, bar)
          /\ vary' = [kind |-> "future", sym |-> df.rows[u].c[cSymbol],
                      cut |-> df.rows[u].c[cDate] - 1]
    /\ UNCHANGED <<df, res, res2, op, orchVars>>

(* second run: one bar of another instrument is different *)
EditOther ==
    /\ Varying
    /\ \E u \in 1..Len(df.rows) : \E bar \in Bars \ {BarOf(df.rows[u])} :
       \E sym \in SymbolsOf(df) \ {df.rows[u].c[cSymbol]} :
          /\ df2' = WithBar(df, u, bar)
          /\ vary' = [kind |-> "other", sym |-> sym, cut |-> LastDate(df, sym)]
    /\ UNCHANGED <<df, res, res2, op, orchVars>>

(* second run: the rows of an instrument after a date are absent *)
TruncateFuture ==
    /\ Varying
    /\ \E sym \in SymbolsOf(df) : \E cut \in 0..(LastDate(df, sym) - 1) :
          /\ df2' = [cols |-> df.cols,
                     rows |-> FilterRows(df.rows,
                                Tuple([i \in 1..Len(df.rows) |->
                                    ~(df.rows[i].c[cSymbol] = sym
                                      /\ df.rows[i].c[cDate] > cut)]),
                                Len(df.rows))]
          /\ vary' = [kind |-> "future", sym |-> sym, cut |-> cut]
    /\ UNCHANGED <<df, res, res2, op, orchVars>>

(* second run: an instrument has one more row, dated after its last *)
AppendFuture ==
    /\ Varying
    /\ \E sym \in Symbols : \E bar \in Bars :
          /\ df2' = [cols |-> df.cols,
                     rows |-> Append(df.rows,
                                FeatureRow(Len(df.rows), sym, LastDate(df, sym) + 1, bar))]
          /\ vary' = [kind |-> "future", sym |-> sym, cut |-> LastDate(df, sym)]
    /\ UNCHANGED <<df, res, res2, op, orchVars>>

(* second run: the rows of one instrument alone *)
SplitInstrument ==
    /\ Varying
    /\ \E sym \in SymbolsOf(df) :
          /\ df2' = [cols |-> df.cols,
                     rows |-> FilterRows(df.rows,
                                Tuple([i \in 1..Len(df.rows) |->
                                    df.rows[i].c[cSymbol] = sym]),
                                Len(df.rows))]
          /\ vary' = [kind |-> "split", sym |-> sym, cut |-> 0]
    /\ UNCHANGED <<df, res, res2, op, orchVars>>

(* Config.MOVING_AVERAGES, Config.RSI_PERIOD and Config.MACD_PARAMS *)
ConfigParams ==
    [ma |-> <<7, 14, 30, 50, 200>>, rsi |-> 14, fast |-> 12, slow |-> 26, signal |-> 9]

(* the arguments of a call of add_all_indicators: the configured ones and  *)
(* short periods                                                           *)
BlockParams ==
    {ConfigParams, [ma |-> <<2>>, rsi |-> 2, fast |-> 1, slow |-> 3, signal |-> 3]}

(* the closes of the table are those of its first row but for its last two *)
(* rows: the recursive averages are exact fractions whose denominators     *)
(* grow with every row after the first change of close                     *)
Steady(t) ==
    \A i \in 1..(Len(t.rows) - 2) : t.rows[i].c[cClose] = t.rows[1].c[cClose]

(* technical_analyzer.calculate_all_indicators on the rows of one          *)
(* instrument, in both runs                                                *)
CalculateAllIndicators ==
    /\ op.name = "load"
    /\ vary.kind = "future"
    /\ Cardinality(SymbolsOf(df) \cup SymbolsOf(df2)) <= 1
    /\ Steady(df) /\ Steady(df2)
    /\ res' = calculate_all_indicators(df)
    /\ res2' = calculate_all_indicators(df2)
    /\ op' = [name |-> "calculate_all_indicators", args |-> <<>>]
    /\ UNCHANGED <<df, df2, vary, orchVars>>

(* add_all_indicators, in both runs *)
AddAllIndicators ==
    /\ op.name = "load"
    /\ vary.kind # "none"
    /\ \E P \in BlockParams :
          /\ res' = add_all_indicators(df, P.ma, P.rsi, P)
          /\ res2' = add_all_indicators(df2, P.ma, P.rsi, P)
          /\ op' = [name |-> "add_all_indicators", args |-> <<P>>]
    /\ UNCHANGED <<df, df2, vary, orchVars>>

NextFeatures ==
    \/ EditFuture
    \/ EditOther
    \/ TruncateFuture
    \/ AppendFuture
    \/ SplitInstrument
    \/ CalculateAllIndicators
    \/ AddAllIndicators

SpecFeatures == InitFeatures /\ [][NextFeatures]_vars

----------------------------------------------------------------------------
(* Properties of the indicator engines *)

FeaturesDone == op.name \in {"calculate_all_indicators", "add_all_indicators"}

(* every indicator cell of the rows of sym dated up to cut is the same in  *)
(* the two runs, rows matched by index label                               *)
SameIndicators(sym, cut) ==
    \A i \in 1..Len(res.rows) :
        (res.rows[i].c[cSymbol] = sym /\ res.rows[i].c[cDate] <= cut) =>
            \E j \in 1..Len(res2.rows) :
                /\ res2.rows[j].idx = res.rows[i].idx
                /\ \A k \in res.cols \ FeatureCols :
                      res2.rows[j].c[k] = res.rows[i].c[k]

(* the columns add_all_indicators is to add under the parameters P *)
BlockColumns(P) ==
    {<<"ma", P.ma[j]>> : j \in 1..Len(P.ma)} \cup
    {Key("macd"), Key("macd_signal"), Key("macd_hist"), Key("bb_middle"),
     Key("bb_std"), Key("bb_upper"), Key("bb_lower"), Key("momentum")}

(* C3: group isolation - on a table of two instruments, every column that  *)
(* add_all_indicators produces (ma_p, macd, macd_signal, macd_hist, the    *)
(* bb columns, momentum), restricted to the rows of one instrument, equals *)
(* the column computed on that instrument's rows alone                     *)
C3_GroupIsolation ==
    (op.name = "add_all_indicators" /\ vary.kind = "split"
        /\ Cardinality(SymbolsOf(df)) >= 2)
    => /\ res # None /\ res2 # None
       /\ BlockColumns(op.args[1]) \subseteq res.cols
       /\ SameIndicators(vary.sym, LastDate(df, vary.sym))

(* C4: no lookahead in features - each engine gives its indicator columns, *)
(* and the values at a row t of an instrument depend only on the rows <= t *)
(* of that instrument: they are the same in two runs whose tables agree on *)
(* those rows, whether the runs differ in later rows of the instrument     *)
(* (appended, removed or modified) or in rows of another instrument        *)
C4_DependsOnOwnPast ==
    (FeaturesDone /\ vary.kind \in {"future", "other"})
    => /\ res # None /\ res2 # None
       /\ SameIndicators(vary.sym, vary.cut)

(* the part of the no-lookahead statement that the analyzer satisfies:     *)
(* rows appended, removed or modified after row t leave the values of      *)
(* calculate_all_indicators at the rows <= t unchanged                     *)
LaterRowsDoNotMatter ==
    (op.name = "calculate_all_indicators" /\ vary.kind = "future")
    => SameIndicators(vary.sym, vary.cut)

(* a run of the analyzer on the long series whose 50-row average has a     *)
(* value, against the series with one more row                             *)
LongSeriesAnalyzed ==
    /\ op.name = "calculate_all_indicators"
    /\ Len(df.rows) = LongLen
    /\ Len(df2.rows) = LongLen + 1
    /\ ~IsNaN(res.rows[LongLen].c[Key("SMA_50")])
    /\ ~IsNaN(res.rows[LongLen].c[Key("Stoch_D")])

(* a run of the analyzer on the long series whose last close is infinite:  *)
(* the averages take that row as a missing one                             *)
InfiniteCloseAnalyzed ==
    /\ op.name = "calculate_all_indicators"
    /\ Len(df.rows) = LongLen
    /\ IsInf(df.rows[LongLen].c[cClose])
    /\ res.rows[LongLen].c[Key("EMA_20")] = Num(1)
    /\ IsNaN(res.rows[LongLen].c[Key("SMA_20")])

----------------------------------------------------------------------------
(* A call of a table component as the interpreter runs it.  A DataFrame is *)
(* an object and a name is bound to an object: objs is the sequence of the *)
(* objects that exist, objs[1] the caller's table, to which the parameter  *)
(* is bound on entry; at is the object the function's working name (df,    *)
(* results, crypto_df) is bound to; raised tells that an exception left    *)
(* the function                                                            *)

Enter(t) == [objs |-> <<t>>, at |-> 1, raised |-> FALSE]

(* the table the working name is bound to *)
Bound(f) == f.objs[f.at]

(* the assignment without .copy(): the name stays bound to the same object *)
SameObject(f) == f

(* df = df.copy(), results = data.copy(), crypto_df = (...).copy(): a new  *)
(* object with the cells of the old one, and the name bound to it          *)
DataFrameCopy(f) ==
    [f EXCEPT !.objs = Append(f.objs, Bound(f)), !.at = Len(f.objs) + 1]

(* df = df[mask], df = df.sort_values(...), df = df.dropna(): each of them *)
(* builds a new object t, and the name is bound to it                      *)
Rebind(f, t) == [f EXCEPT !.objs = Append(f.objs, t), !.at = Len(f.objs) + 1]

(* df[column] = ..., df.loc[labels, column] = ...: the object the name is  *)
(* bound to is written in place and becomes t                              *)
Assign(f, t) == [f EXCEPT !.objs[f.at] = t]

(* an exception that nothing in the function catches *)
Raise(f) == [f EXCEPT !.raised = TRUE]

(* what the caller receives: the table of the return statement, no table   *)
(* when the call raised                                                    *)
Returned(f) == IF f.raised THEN None ELSE Bound(f)

----------------------------------------------------------------------------
(* Feature scaling: DataProcessor.scale_features *)

(* the column f'{feature}_scaled' of the feature column k *)
ScaledKey(k) == <<k[1], k[2], "scaled">>

cReturn1 == <<"return", 1>>

(* StandardScaler().fit_transform on one column of values: mean and        *)
(* population variance over the non-null values, (x - mean) / sqrt(var),   *)
(* the divisor 1 when the variance is 0, nulls left null                   *)
Standardize(x) ==
    LET n == CountObs(x, 1, Len(x))
        mean == WindowMean(x, 1, Len(x))
        var == QDiv(SumSqDev(x, 1, Len(x), mean), Num(n))
    IN  Tuple([i \in 1..Len(x) |->
            IF IsNaN(x[i]) \/ IsNaN(mean) THEN Surd(NaN, Num(0))
            ELSE IF IsZero(var) THEN Surd(QSub(x[i], mean), Num(0))
            ELSE LET dev == QSub(x[i], mean)
                     r == QDiv(QMul(dev, dev), var)
                 IN  Surd(Num(0), IF dev.n < 0 THEN QNeg(r) ELSE r)])

(* the scaler fitted on the whole column instead of per instrument *)
ScaledColumnUngrouped(rows, k) == Standardize(Column(rows, k))

(* lines 32-47 for one feature: each symbol's values fitted and            *)
(* transformed on their own, written at that symbol's index labels         *)
ScaledColumn(rows, k) ==
    LET x == Groups(rows, k)
    IN  GroupTransform(rows, Tuple([g \in DOMAIN x |-> Standardize(x[g])]))

(* the features of the list that are columns of the table *)
PresentFeatures(t, features_to_scale) ==
    {features_to_scale[j] : j \in DOMAIN features_to_scale} \cap t.cols

(* symbol_data[feature].values *)
SymbolValues(rows, symbol, feature) ==
    LET g == GroupIdx(rows, symbol, Len(rows))
    IN  Tuple([j \in 1..Len(g) |-> rows[g[j]].c[feature]])

(* the passes of the loops of lines 32 and 40 that reach fit_transform:    *)
(* <<symbol, feature>> for each symbol in order of first appearance and,   *)
(* within it, each listed feature that is a column, in list order          *)
ScalePasses(t, features_to_scale) ==
    LET first == FirstOfGroup(t.rows, Len(t.rows))
        present(k) == k \in t.cols
        feats == SelectSeq(features_to_scale, present)
    IN  Tuple([p \in 1..(Len(first) * Len(feats)) |->
            <<t.rows[first[((p - 1) \div Len(feats)) + 1]].c[cSymbol],
              feats[((p - 1) % Len(feats)) + 1]>>])

(* fit_transform(values) raises ValueError: on the strings of the symbol   *)
(* column, and on values that hold +inf or -inf ("Input X contains         *)
(* infinity"); nulls are accepted                                          *)
FitRaises(x, k) == k = cSymbol \/ \E i \in 1..Len(x) : IsInf(x[i])

(* the first pass whose fit_transform raises, 0 when none does *)
RaisingPass(t, features_to_scale) ==
    LET passes == ScalePasses(t, features_to_scale)
        bad == {p \in 1..Len(passes) :
                   FitRaises(SymbolValues(t.rows, passes[p][1], passes[p][2]),
                             passes[p][2])}
    IN  IF bad = {} THEN 0 ELSE CHOOSE p \in bad : \A q \in bad : p <= q

(* scale_features raises: nothing catches what fit_transform raises *)
ScaleRaises(t, features_to_scale) == RaisingPass(t, features_to_scale) # 0

(* the returned copy, no table when the call raises; a table without rows  *)
(* has no symbol to loop over and gets no new column                       *)
scale_features(t, features_to_scale) ==
    IF ScaleRaises(t, features_to_scale) THEN None
    ELSE IF Len(t.rows) = 0 THEN t
    ELSE WithColumns(t,
           [sk \in {ScaledKey(k) : k \in PresentFeatures(t, features_to_scale)} |->
               ScaledColumn(t.rows, <<sk[1], sk[2]>>)])

(* The call on a DataProcessor instance, statement by statement.  scalers  *)
(* is self.scalers, a mapping symbol -> feature -> StandardScaler; a       *)
(* scaler holds n_samples_seen_, mean_ and var_, which it lacks before its *)
(* first fit                                                               *)

(* StandardScaler() *)
Unfitted == [fitted |-> FALSE, n |-> 0, mean |-> NaN, var |-> NaN]

(* _reset(): the fitted attributes are deleted *)
Reset(scaler) == Unfitted

(* partial_fit(x): the count, mean and population variance of the non-null *)
(* values seen so far, those the scaler holds merged with those of x       *)
partial_fit(scaler, x) ==
    LET nx == CountObs(x, 1, Len(x))
        n == scaler.n + nx
        mean == IF scaler.n = 0 THEN WindowMean(x, 1, Len(x))
                ELSE QDiv(QAdd(QMul(Num(scaler.n), scaler.mean), SumObs(x, 1, Len(x))),
                          Num(n))
        shift == QSub(scaler.mean, mean)
        held == IF scaler.n = 0 THEN Num(0)
                ELSE QMul(Num(scaler.n), QAdd(scaler.var, QMul(shift, shift)))
    IN  IF scaler.n > 0 /\ nx = 0 THEN scaler
        ELSE [fitted |-> TRUE, n |-> n, mean |-> mean,
              var |-> QDiv(QAdd(held, SumSqDev(x, 1, Len(x), mean)), Num(n))]

(* a fit that leaves out the reset *)
FitWithoutReset(scaler, x) == partial_fit(scaler, x)

(* fit(x): _reset(), then partial_fit(x) *)
fit(scaler, x) == partial_fit(Reset(scaler), x)

(* transform(x): (x - mean_) / scale_, scale_ 1 for a variance of 0 *)
transform(scaler, x) ==
    Tuple([i \in 1..Len(x) |->
        IF IsNaN(x[i]) \/ IsNaN(scaler.mean) THEN Surd(NaN, Num(0))
        ELSE IF IsZero(scaler.var) THEN Surd(QSub(x[i], scaler.mean), Num(0))
        ELSE LET dev == QSub(x[i], scaler.mean)
                 r == QDiv(QMul(dev, dev), scaler.var)
             IN  Surd(Num(0), IF dev.n < 0 THEN QNeg(r) ELSE r)])

(* df.loc[symbol_data.index, f'{feature}_scaled'] = scaled_values (line    *)
(* 47): the cells of the column at the index labels of the symbol's rows;  *)
(* the other cells keep their values, null when the column is new          *)
WriteScaled(t, symbol, feature, scaled_values) ==
    LET g == GroupIdx(t.rows, symbol, Len(t.rows))
        sk == ScaledKey(feature)
        at(i) == {j \in 1..Len(g) : t.rows[g[j]].idx = t.rows[i].idx}
        cell(i) == IF at(i) # {} THEN scaled_values[CHOOSE j \in at(i) : TRUE]
                   ELSE IF sk \in t.cols THEN t.rows[i].c[sk]
                   ELSE Surd(NaN, Num(0))
    IN  WithColumns(t, sk :> Tuple([i \in 1..Len(t.rows) |-> cell(i)]))

(* lines 40-47 for one symbol, from the j-th listed feature on; s.f is the *)
(* call, s.scalers the mapping.  A feature that is no column is skipped; a *)
(* scaler is created only where the mapping has none (lines 42-43); the    *)
(* fit_transform of line 46 is fit, which raises after its reset on values *)
(* it does not accept, then transform                                      *)
RECURSIVE FeatureLoop(_, _, _, _)
FeatureLoop(s, symbol, features_to_scale, j) ==
    IF j > Len(features_to_scale) \/ s.f.raised THEN s
    ELSE LET feature == features_to_scale[j]
             table == Bound(s.f)
             have == IF feature \in DOMAIN s.scalers[symbol] THEN s.scalers
                     ELSE [s.scalers EXCEPT ![symbol] = (feature :> Unfitted) @@ @]
             values == SymbolValues(table.rows, symbol, feature)
             stored == have[symbol][feature]
             fitted == fit(stored, values)
         IN  IF feature \notin table.cols
             THEN FeatureLoop(s, symbol, features_to_scale, j + 1)
             ELSE IF FitRaises(values, feature)
             THEN [f |-> Raise(s.f),
                   scalers |-> [have EXCEPT ![symbol] = (feature :> Reset(stored)) @@ @]]
             ELSE FeatureLoop(
                    [f |-> Assign(s.f, WriteScaled(table, symbol, feature,
                                                   transform(fitted, values))),
                     scalers |-> [have EXCEPT ![symbol] = (feature :> fitted) @@ @]],
                    symbol, features_to_scale, j + 1)

(* lines 32-47 from the g-th symbol of df['symbol'].unique() on: an entry  *)
(* of the mapping is created only for a symbol that has none (lines 36-37) *)
RECURSIVE SymbolLoop(_, _, _, _)
SymbolLoop(s, symbols, features_to_scale, g) ==
    IF g > Len(symbols) \/ s.f.raised THEN s
    ELSE LET symbol == symbols[g]
             have == IF symbol \in DOMAIN s.scalers THEN s.scalers
                     ELSE (symbol :> <<>>) @@ s.scalers
         IN  SymbolLoop(FeatureLoop([s EXCEPT !.scalers = have], symbol,
                                    features_to_scale, 1),
                        symbols, features_to_scale, g + 1)

(* self.scale_features(t, features_to_scale) on an instance whose mapping  *)
(* is scalers: the call and the mapping it leaves                          *)
ScaleFeaturesCall(scalers, t, features_to_scale) ==
    LET first == FirstOfGroup(t.rows, Len(t.rows))
        unique == Tuple([g \in 1..Len(first) |-> t.rows[first[g]].c[cSymbol]])
    IN  SymbolLoop([f |-> DataFrameCopy(Enter(t)), scalers |-> scalers],
                   unique, features_to_scale, 1)

(* Inputs of scale_features: tables with the columns symbol, date, close   *)
(* and return_1d, index labels 0, 1, ... as read_csv gives them            *)

MaxScaleRows == 3

ScaleCloses == {Num(1), Num(2)}

(* the closes of an input table: read_csv reads 'inf' as an infinite value *)
ScaleInputs == ScaleCloses \cup {PInf}

ScaleReturns == {NaN, Num(1)}

ScaleRow(label, sym, date, close, ret) ==
    [idx |-> label,
     c |-> (cSymbol :> sym) @@ (cDate :> date) @@ (cClose :> close) @@
           (cReturn1 :> ret)]

ScaleTable(n, syms, closes, rets) ==
    [cols |-> {cSymbol, cDate, cClose, cReturn1},
     rows |-> Tuple([i \in 1..n |-> ScaleRow(i - 1, syms[i], i, closes[i], rets[i])])]

(* features_to_scale: a column the table lacks (volume), a target column,  *)
(* the identifier column                                                   *)
FeatureLists == {<<cClose, cVolume>>, <<cClose, cReturn1>>, <<cSymbol, cClose>>}

InitScale ==
    /\ \E n \in 0..MaxScaleRows : \E syms \in [1..n -> Symbols] :
       \E closes \in [1..n -> ScaleInputs] : \E rets \in [1..n -> ScaleReturns] :
          df = ScaleTable(n, syms, closes, rets)
    /\ res = df
    /\ op = Loaded
    /\ NoVariant
    /\ NoBatch

(* the tables that differ from t in one row of an instrument other than    *)
(* sym: its close modified, the row removed, or a row added; the new close *)
(* is any value a file can hold, an infinite one included                  *)
OtherVariants(t, sym) ==
    LET n == Len(t.rows)
        others == {u \in 1..n : t.rows[u].c[cSymbol] # sym}
    IN  {[cols |-> t.cols,
          rows |-> Tuple([i \in 1..n |->
                      IF i = u
                      THEN ScaleRow(t.rows[i].idx, t.rows[i].c[cSymbol],
                                    t.rows[i].c[cDate], v, t.rows[i].c[cReturn1])
                      ELSE t.rows[i]])] :
            u \in others, v \in ScaleInputs \cup {Num(3)}}
        \cup
        {[cols |-> t.cols,
          rows |-> FilterRows(t.rows, Tuple([i \in 1..n |-> i # u]), n)] :
            u \in others}
        \cup
        {[cols |-> t.cols,
          rows |-> Append(t.rows, ScaleRow(n, o, n + 1, v, NaN))] :
            o \in Symbols \ {sym}, v \in ScaleInputs}

(* second run: the rows of instruments other than sym are different *)
VaryOther ==
    /\ Varying
    /\ \E sym \in SymbolsOf(df) : \E t \in OtherVariants(df, sym) \ {df} :
          /\ df2' = t
          /\ vary' = [kind |-> "other", sym |-> sym, cut |-> 0]
    /\ UNCHANGED <<df, res, res2, op, orchVars>>

(* res = scale_features(df, features_to_scale), and the same call on the   *)
(* table of the second run when there is one                               *)
ScaleFeatures ==
    /\ op.name = "load"
    /\ \E features_to_scale \in FeatureLists :
          IF ScaleRaises(df, features_to_scale)
          THEN /\ op' = [name |-> "scale_features_raised",
                         args |-> <<features_to_scale>>]
               /\ UNCHANGED <<res, res2>>
          ELSE /\ op' = [name |-> "scale_features", args |-> <<features_to_scale>>]
               /\ res' = scale_features(df, features_to_scale)
               /\ res2' = IF vary.kind = "none" THEN res2
                          ELSE scale_features(df2, features_to_scale)
    /\ UNCHANGED <<df, df2, vary, orchVars>>

NextScale == VaryOther \/ ScaleFeatures

SpecScale == InitScale /\ [][NextScale]_vars

----------------------------------------------------------------------------
(* Properties of scale_features (SpecScale) *)

Scaled == op.name = "scale_features"

(* C13: per-instrument scaling - the *_scaled values at the rows of an     *)
(* instrument are the same when rows of another instrument are modified,   *)
(* added or removed: the call on the changed table returns a table, and    *)
(* that table has the instrument's scaled values of the first call; every  *)
(* listed feature that is a column gets its *_scaled column and the        *)
(* feature column itself keeps its values                                  *)
C13_ScalingIsolated ==
    (Scaled /\ vary.kind = "other") =>
        /\ res2 # None
        /\ \A i \in 1..Len(res.rows) : \A k \in PresentFeatures(df, op.args[1]) :
              /\ ScaledKey(k) \in res.cols
              /\ res.rows[i].c[k] = df.rows[i].c[k]
              /\ res.rows[i].c[cSymbol] = vary.sym =>
                    \E j \in 1..Len(res2.rows) :
                        /\ res2.rows[j].idx = res.rows[i].idx
                        /\ res2.rows[j].c[ScaledKey(k)] = res.rows[i].c[ScaledKey(k)]

(* Lemma: when the call on the changed table returns, the instrument's     *)
(* scaled values are those of the first call                               *)
ScalingIsolatedWhenBothReturn ==
    (Scaled /\ vary.kind = "other" /\ res2 # None) =>
        \A i \in 1..Len(res.rows) : \A k \in PresentFeatures(df, op.args[1]) :
            /\ ScaledKey(k) \in res.cols
            /\ res.rows[i].c[k] = df.rows[i].c[k]
            /\ res.rows[i].c[cSymbol] = vary.sym =>
                  \E j \in 1..Len(res2.rows) :
                      /\ res2.rows[j].idx = res.rows[i].idx
                      /\ res2.rows[j].c[ScaledKey(k)] = res.rows[i].c[ScaledKey(k)]

(* the first call returned the scaled closes of the observed instrument;   *)
(* the other instrument's close became infinite and the second call raised *)
OtherInstrumentRaised ==
    /\ Scaled /\ vary.kind = "other"
    /\ res2 = None
    /\ \E i \in 1..Len(res.rows) :
          /\ res.rows[i].c[cSymbol] = vary.sym
          /\ ScaledKey(cClose) \in res.cols
    /\ \E j \in 1..Len(df2.rows) :
          /\ df2.rows[j].c[cSymbol] # vary.sym
          /\ IsInf(df2.rows[j].c[cClose])

(* the observed instrument has two different scaled closes, the other      *)
(* instrument's row changed the table, and both calls returned             *)
BothScaled ==
    /\ Scaled /\ vary.kind = "other"
    /\ res2 # None
    /\ \E i, j \in 1..Len(res.rows) :
          /\ res.rows[i].c[cSymbol] = vary.sym
          /\ res.rows[j].c[cSymbol] = vary.sym
          /\ res.rows[i].c[ScaledKey(cClose)] # res.rows[j].c[ScaledKey(cClose)]
    /\ \E i \in 1..Len(res.rows) :
          /\ res.rows[i].c[cSymbol] # vary.sym
          /\ \A j \in 1..Len(res2.rows) : res2.rows[j] # res.rows[i]

ExcludedFromScaling ==
    {"symbol", "date", "future_price", "return", "direction", "volatility"}

(* C14: no *_scaled column is ever produced for the identifier column, the *)
(* timestamp column or a target column, whatever features_to_scale lists   *)
C14_NoScaledTargets ==
    Scaled => \A k \in res.cols : Len(k) = 3 => k[1] \notin ExcludedFromScaling

----------------------------------------------------------------------------
(* Loader: KaggleDataLoader.load_data_from_csv.  A CSV file is a header of *)
(* column names and rows of cells in header order; a column name is the    *)
(* tuple of its characters                                                 *)

(* str.lower() on the characters that occur in the headers *)
LowerChar(ch) ==
    CASE ch = "A" -> "a" [] ch = "D" -> "d" [] ch = "E" -> "e"
      [] ch = "S" -> "s" [] ch = "T" -> "t" [] OTHER -> ch

Lower(name) == Tuple([i \in 1..Len(name) |-> LowerChar(name[i])])

RECURSIVE StripLeft(_)
StripLeft(name) ==
    IF name # <<>> /\ Head(name) = " " THEN StripLeft(Tail(name)) ELSE name

RECURSIVE StripRight(_)
StripRight(name) ==
    IF name # <<>> /\ name[Len(name)] = " "
    THEN StripRight(SubSeq(name, 1, Len(name) - 1))
    ELSE name

(* col.lower().strip() *)
StandardName(col) == StripRight(StripLeft(Lower(col)))

nSymbol == <<"s", "y", "m", "b", "o", "l">>

nDates == <<"d", "a", "t", "e", "s">>

nDate == <<"d", "a", "t", "e">>

nOpen == <<"o", "p", "e", "n">>

nHigh == <<"h", "i", "g", "h">>

nLow == <<"l", "o", "w">>

nClose == <<"c", "l", "o", "s", "e">>

nVolume == <<"v", "o", "l", "u", "m", "e">>

required_columns == <<nSymbol, nDates, nOpen, nHigh, nLow, nClose, nVolume>>

cDates == Key("dates")

(* the key under which the tables of this module hold a column name *)
ColumnKey(name) ==
    CASE name = nSymbol -> cSymbol [] name = nDates -> cDates
      [] name = nDate -> cDate [] name = nOpen -> Key("open")
      [] name = nHigh -> cHigh [] name = nLow -> cLow
      [] name = nClose -> cClose [] name = nVolume -> cVolume

(* order of the symbol strings *)
SymbolRank == ("A" :> 1) @@ ("B" :> 2) @@ ("C" :> 3)

KeyBefore(a, b) ==
    \/ SymbolRank[a.c[cSymbol]] < SymbolRank[b.c[cSymbol]]
    \/ (a.c[cSymbol] = b.c[cSymbol] /\ a.c[cDates] < b.c[cDates])

SameKey(a, b) == a.c[cSymbol] = b.c[cSymbol] /\ a.c[cDates] = b.c[cDates]

(* df.sort_values(['symbol', 'dates']): the multi-key sort is stable *)
SortBySymbolDates(rows) ==
    LET rank(i) == Cardinality({j \in 1..Len(rows) :
                       \/ KeyBefore(rows[j], rows[i])
                       \/ (SameKey(rows[j], rows[i]) /\ j <= i)})
    IN  Tuple([r \in 1..Len(rows) |->
                 rows[CHOOSE i \in 1..Len(rows) : rank(i) = r]])

(* keep the last row of each key instead of the first *)
DropDuplicatesKeepLast(rows) ==
    FilterRows(rows,
        Tuple([i \in 1..Len(rows) |->
                  ~\E j \in (i + 1)..Len(rows) : SameKey(rows[j], rows[i])]),
        Len(rows))

(* df.drop_duplicates(subset=['symbol', 'dates']): first occurrence kept *)
drop_duplicates(rows) ==
    FilterRows(rows,
        Tuple([i \in 1..Len(rows) |->
                  ~\E j \in 1..(i - 1) : SameKey(rows[j], rows[i])]),
        Len(rows))

(* read_csv with the standardized column names, index labels 0, 1, ... *)
ReadCsv(file) ==
    [cols |-> {ColumnKey(StandardName(file.header[j])) : j \in 1..Len(file.header)},
     rows |-> Tuple([i \in 1..Len(file.rows) |->
                 [idx |-> i - 1,
                  c |-> [k \in {ColumnKey(StandardName(file.header[j])) :
                                   j \in 1..Len(file.header)} |->
                            file.rows[i][CHOOSE j \in 1..Len(file.header) :
                                ColumnKey(StandardName(file.header[j])) = k]]]])]

(* as MissingRequired, with volume not among the columns looked for *)
MissingRequiredButVolume(file) ==
    \E r \in 1..Len(required_columns) :
        /\ required_columns[r] # nVolume
        /\ \A j \in 1..Len(file.header) : StandardName(file.header[j]) # required_columns[r]

(* a required column is absent: ValueError, caught, None returned *)
MissingRequired(file) ==
    \E r \in 1..Len(required_columns) :
        \A j \in 1..Len(file.header) : StandardName(file.header[j]) # required_columns[r]

(* raw_path holds no CSV file *)
NoFile == [header |-> <<>>, rows |-> <<>>]

load_data_from_csv(file) ==
    IF file = NoFile THEN None
    ELSE IF MissingRequired(file) THEN None
    ELSE LET t == ReadCsv(file)
         IN  [cols |-> t.cols, rows |-> drop_duplicates(SortBySymbolDates(t.rows))]

(* Input files: the seven columns under differently written names, with   *)
(* the timestamp column called dates or date, or with one column left out  *)

MaxFileRows == 3

MaxFileDate == 2

SymbolNames == {nSymbol, <<"S", "y", "m", "b", "o", "l", " ">>}

TimestampNames ==
    {nDates, <<" ", "D", "a", "t", "e", "s">>, nDate, <<"D", "A", "T", "E", " ">>}

FullHeaders ==
    {<<sn, tn, nOpen, nHigh, nLow, nClose, nVolume>> :
        sn \in SymbolNames, tn \in TimestampNames}

(* the header h without its j-th column *)
Without(h, j) == SubSeq(h, 1, j - 1) \o SubSeq(h, j + 1, Len(h))

Headers == FullHeaders \cup {Without(h, j) : h \in FullHeaders, j \in 1..7}

(* the cell of a row under a column name *)
CellUnder(name, sym, date, close) ==
    LET sn == StandardName(name)
    IN  IF sn = nSymbol THEN sym
        ELSE IF sn \in {nDates, nDate} THEN date
        ELSE IF sn = nClose THEN close
        ELSE Num(1)

CsvFile(header, n, syms, dates, closes) ==
    [header |-> header,
     rows |-> Tuple([i \in 1..n |->
                 Tuple([j \in 1..Len(header) |->
                     CellUnder(header[j], syms[i], dates[i], closes[i])])])]

FileRead == [name |-> "file", args |-> <<>>]

InitLoad ==
    /\ \E header \in Headers : \E n \in 0..MaxFileRows :
       \E syms \in [1..n -> Symbols] : \E dates \in [1..n -> 1..MaxFileDate] :
       \E closes \in [1..n -> {Num(1), Num(2)}] :
          df = CsvFile(header, n, syms, dates, closes)
    /\ res = EmptyTable
    /\ op = FileRead
    /\ NoVariant
    /\ NoBatch

(* res = load_data_from_csv() on the file df *)
LoadCsv ==
    /\ op.name = "file"
    /\ res' = load_data_from_csv(df)
    /\ op' = [name |-> "load_data_from_csv", args |-> <<>>]
    /\ UNCHANGED <<df, df2, res2, vary, orchVars>>

(* res2 = res.drop_duplicates(subset=['symbol', 'dates']) *)
DropDuplicatesAgain ==
    /\ op.name = "load_data_from_csv"
    /\ res # None
    /\ res2' = [cols |-> res.cols, rows |-> drop_duplicates(res.rows)]
    /\ op' = [name |-> "drop_duplicates_again", args |-> <<>>]
    /\ UNCHANGED <<df, res, df2, vary, orchVars>>

NextLoad == LoadCsv \/ DropDuplicatesAgain

SpecLoad == InitLoad /\ [][NextLoad]_vars

----------------------------------------------------------------------------
(* Properties of the loader (SpecLoad) *)

LoadedTable == op.name \in {"load_data_from_csv", "drop_duplicates_again"} /\ res # None

(* the rows of the file as read, before sorting *)
FileRows == ReadCsv(df).rows

(* C17: the loaded table is sorted by (symbol, dates) ascending without a  *)
(* repeated key, every key of the file is present with the row of its      *)
(* first occurrence in the file, and deduplicating the result again        *)
(* changes nothing                                                         *)
C17_SortedDeduplicated ==
    LoadedTable =>
        /\ \A a, b \in 1..Len(res.rows) :
              a < b => KeyBefore(res.rows[a], res.rows[b])
        /\ \A i \in 1..Len(FileRows) :
              (\A j \in 1..(i - 1) : ~SameKey(FileRows[j], FileRows[i]))
              => \E m \in 1..Len(res.rows) : res.rows[m] = FileRows[i]
        /\ Len(res.rows) = Cardinality({<<FileRows[i].c[cSymbol], FileRows[i].c[cDates]>> :
                                           i \in 1..Len(FileRows)})
        /\ op.name = "drop_duplicates_again" => res2 = res

(* C17 witness: a file out of order, with a key repeated under two closes, *)
(* loaded to at least two rows and deduplicated again                      *)
C17_Witness ==
    /\ op.name = "drop_duplicates_again"
    /\ Len(res.rows) >= 2
    /\ \E i, j \in 1..Len(FileRows) :
          i < j /\ SameKey(FileRows[i], FileRows[j])
                /\ FileRows[i].c[cClose] # FileRows[j].c[cClose]
    /\ \E i, j \in 1..Len(FileRows) : i < j /\ KeyBefore(FileRows[j], FileRows[i])

(* the name under which each downstream component reads the timestamp:   *)
(* extract_crypto_data reads crypto_df['dates'], add_all_indicators sorts  *)
(* by 'date'                                                               *)
ExtractionTimestamp == cDates

IndicatorTimestamp == cDate

HasColumn(file, name) ==
    \E j \in 1..Len(file.header) : StandardName(file.header[j]) = name

(* every required column is present, the timestamp under dates or date *)
AcceptableFile(file) ==
    /\ \A j \in 1..Len(required_columns) :
          required_columns[j] # nDates => HasColumn(file, required_columns[j])
    /\ HasColumn(file, nDates) \/ HasColumn(file, nDate)

(* C18: a file with all required columns whose timestamp column is named   *)
(* dates or date (any case, surrounding blanks) loads, and the loaded      *)
(* table has the timestamp column under the names extraction and the       *)
(* indicator engine read                                                   *)
C18_TimestampNameAccepted ==
    (op.name = "load_data_from_csv" /\ AcceptableFile(df)) =>
        /\ res # None
        /\ ExtractionTimestamp \in res.cols
        /\ IndicatorTimestamp \in res.cols

(* Lemma: under the dates spelling loading succeeds and extraction finds   *)
(* its column                                                              *)
DatesSpellingLoads ==
    (op.name = "load_data_from_csv" /\ AcceptableFile(df) /\ HasColumn(df, nDates)) =>
        /\ res # None
        /\ ExtractionTimestamp \in res.cols

----------------------------------------------------------------------------
(* get_user_selection: what one pass of its while loop does with the line  *)
(* read by input(); a line is the sequence of its comma-separated tokens,  *)
(* a token the sequence of its characters                                  *)

(* the tokens of a line *)
MaxTokens == 2

(* "^2" stands for a superscript two: a character str.isdigit() accepts    *)
(* and int() rejects                                                       *)
DigitValue == ("0" :> 0) @@ ("1" :> 1) @@ ("2" :> 2) @@ ("9" :> 9)

(* token.isdigit(): at least one character, every character a digit *)
IsDigitString(tok) ==
    Len(tok) > 0 /\ \A j \in 1..Len(tok) : tok[j] \in DOMAIN DigitValue \cup {"^2"}

(* int(token) raises ValueError *)
IntRaises(tok) == \E j \in 1..Len(tok) : tok[j] \notin DOMAIN DigitValue

RECURSIVE IntOf(_)
IntOf(tok) ==
    IF tok = <<>> THEN 0
    ELSE 10 * IntOf(SubSeq(tok, 1, Len(tok) - 1)) + DigitValue[tok[Len(tok)]]

Strip(tok) == StripRight(StripLeft(tok))

Tokens ==
    {<<"1">>, <<"2">>, <<" ", "2", " ">>, <<"0">>, <<"9">>, <<"1", "0">>,
     <<"x">>, <<"-", "1">>, <<>>, <<"^2">>}

InputLines == UNION {[1..n -> Tokens] : n \in 1..MaxTokens}

AvailableLists == {<<>>, <<"A">>, <<"A", "B">>, <<"A", "B", "C">>}

(* the tokens that pass i.strip().isdigit(), stripped *)
DigitTokens(line) ==
    LET keep(tok) == IsDigitString(Strip(tok))
    IN  Tuple([k \in 1..Len(SelectSeq(line, keep)) |-> Strip(SelectSeq(line, keep)[k])])

(* [int(i.strip())-1 for i in selection.split(',') if i.strip().isdigit()] *)
selected_indices(line) ==
    Tuple([k \in 1..Len(DigitTokens(line)) |-> IntOf(DigitTokens(line)[k]) - 1])

(* as InRange, without the lower bound *)
InRangeBelow(i, n) == i < n

(* 0 <= i < len(available_symbols) *)
InRange(i, n) == 0 <= i /\ i < n

(* the indices that pass the range filter *)
KeptIndices(available, indices) ==
    LET keep(i) == InRange(i, Len(available))
    IN  SelectSeq(indices, keep)

(* available_symbols[i] raises IndexError *)
IndexRaises(available, i) == i >= Len(available) \/ i < -Len(available)

(* available_symbols[i], a negative i counting from the end *)
PyIndex(available, i) == IF i < 0 THEN available[Len(available) + i + 1] ELSE available[i + 1]

(* what one pass of the while loop does with a line: "invalid" when the    *)
(* list comprehensions raise ValueError or IndexError, "no_valid" when     *)
(* selected_symbols is empty, else "returned" with the symbols             *)
Selection(available, line) ==
    IF \E k \in 1..Len(DigitTokens(line)) : IntRaises(DigitTokens(line)[k])
    THEN [kind |-> "invalid", symbols |-> <<>>]
    ELSE LET kept == KeptIndices(available, selected_indices(line))
         IN  IF \E k \in 1..Len(kept) : IndexRaises(available, kept[k])
             THEN [kind |-> "invalid", symbols |-> <<>>]
             ELSE IF kept = <<>> THEN [kind |-> "no_valid", symbols |-> <<>>]
             ELSE [kind |-> "returned",
                   symbols |-> Tuple([k \in 1..Len(kept) |-> PyIndex(available, kept[k])])]

----------------------------------------------------------------------------
(* Orchestrator: a run of main.py, from its imports to the end of main(),  *)
(* with the loop over the selected instruments and process_single_crypto.  *)
(* df is the CSV file of raw_path (NoFile when there is none), res the     *)
(* table df_all loaded from it.  deployment says what the run finds: the   *)
(* modules main.py imports, and the attribute Config.LOG_PATH.  The        *)
(* repository has neither (AsRepository), so a run of the repository as it *)
(* is ends at ImportMain; the statements of main() run only where both are *)
(* supplied.  pc is the statement about to run, for the instrument         *)
(* selected[pos] once the loop has begun:                                  *)
(*   "import"          the import statements of main.py                    *)
(*   "import_failed"   an import raised ModuleNotFoundError                *)
(*   "setup"           setup_logging() ... the construction of components  *)
(*   "setup_failed"    main() raised AttributeError (Config.LOG_PATH) or   *)
(*                     the OSError of a directory that cannot be made      *)
(*   "download"        kaggle_loader.download_dataset()                    *)
(*   "download_failed" main() raised what download_dataset raised          *)
(*   "load"            df_all = kaggle_loader.load_data_from_csv()         *)
(*   "load_failed"     main() raised "Failed to load dataset"              *)
(*   "selecting"       get_user_selection() is blocked in input(): the     *)
(*                     table is loaded, nothing is selected                *)
(*   "selection_failed" main() raised EOFError: input() met end of file    *)
(*   "process"         data_processor.process_data(df_all, selected)       *)
(*   "process_failed"  main() raised what a write of process_data raised   *)
(*   "name"            get_crypto_name_from_groq(symbol)                   *)
(*   "social"          analyze_social_data(crypto_name, wiki_visualizer)   *)
(*   "market"          analyze_market_data(symbol, df, ...)                *)
(*   "done"            the loop ended, "Analysis completed successfully!"  *)
(*   "aborted"         an exception left main() from inside the loop       *)
(* errorLog holds what is logged as an error: the key of an instrument     *)
(* ("Error processing {symbol}") and MainError ("An error occurred").      *)
(* selected is selected_symbols as get_user_selection returned it and,     *)
(* from process_data on, the keys of extracted_data.  res2 is the table    *)
(* last written to a file, op the call that wrote it.                      *)

(* the keys of extracted_data: the selected symbols in the order of their  *)
(* first selection, a symbol selected again keeping its place              *)
ExtractedKeys(selected_symbols) ==
    FilterRows(selected_symbols,
        Tuple([i \in 1..Len(selected_symbols) |->
                  \A j \in 1..(i - 1) : selected_symbols[j] # selected_symbols[i]]),
        Len(selected_symbols))

(* Config.MINIMUM_RECORDS *)
MINIMUM_RECORDS == 250

(* the symbol column of the files of a batch, in file order *)
BatchLayouts ==
    {<<>>, <<"A">>, <<"A", "A">>, <<"B", "A">>, <<"C", "A", "B">>}

(* the file of a batch: dates in file order, every close 1 *)
BatchFile(header, syms) ==
    CsvFile(header, Len(syms), syms, Tuple([i \in 1..Len(syms) |-> i]),
            Tuple([i \in 1..Len(syms) |-> Num(1)]))

(* sorted(df_all['symbol'].unique()) *)
available_symbols(df_all) ==
    LET S == {df_all.rows[m].c[cSymbol] : m \in 1..Len(df_all.rows)}
    IN  Tuple([r \in 1..Cardinality(S) |->
            CHOOSE a \in S : Cardinality({b \in S : SymbolRank[b] <= SymbolRank[a]}) = r])

NoCollab == [wiki |-> "unset", trends |-> "unset"]

(* what the edit-history fetch and the search-interest fetch would yield *)
WikiOutcomes == {"file", "absent", "fails"}

TrendsOutcomes == {"data", "absent", "fails"}

(* the error main() logs before it re-raises: "An error occurred: ..." *)
MainError == "An error occurred"

Deployments == [modules : BOOLEAN, log_path : BOOLEAN]

Init ==
    /\ \/ df = NoFile
       \/ \E header \in Headers : \E syms \in BatchLayouts : df = BatchFile(header, syms)
    /\ res = EmptyTable
    /\ op = FileRead
    /\ NoVariant
    /\ selected = <<>>
    /\ pc = "import"
    /\ pos = 1
    /\ crypto_name = "unset"
    /\ collab = NoCollab
    /\ outcome = <<>>
    /\ errorLog = <<>>
    /\ deployment \in Deployments

(* the imports of main.py: a module that is not there raises               *)
(* ModuleNotFoundError and main() is never defined                         *)
ImportMain ==
    /\ pc = "import"
    /\ pc' = IF deployment.modules THEN "setup" ELSE "import_failed"
    /\ UNCHANGED <<selected, pos, crypto_name, collab, outcome, errorLog, deployment,
                   tableVars>>

(* an exception inside main(), outside process_single_crypto: logged as    *)
(* "An error occurred" and re-raised                                       *)
MainRaises(at) ==
    /\ pc' = at
    /\ errorLog' = Append(errorLog, MainError)

(* setup_logging() reads Config.LOG_PATH at its first statement; then      *)
(* create_directories() and the construction of the components, whose      *)
(* os.makedirs raise OSError when a directory cannot be made               *)
SetupLogging ==
    /\ pc = "setup"
    /\ IF deployment.log_path
       THEN \/ pc' = "download" /\ UNCHANGED errorLog
            \/ MainRaises("setup_failed")
       ELSE MainRaises("setup_failed")
    /\ UNCHANGED <<selected, pos, crypto_name, collab, outcome, deployment, tableVars>>

(* download_dataset(): a CSV file of raw_path is used as it is; without    *)
(* one the dataset is asked of the Kaggle API, which raises (re-raised by  *)
(* download_dataset) or unpacks an archive, with or without a CSV file     *)
DownloadDataset ==
    /\ pc = "download"
    /\ IF df # NoFile
       THEN pc' = "load" /\ UNCHANGED <<df, errorLog>>
       ELSE \/ MainRaises("download_failed") /\ UNCHANGED df
            \/ /\ pc' = "load"
               /\ \/ UNCHANGED df
                  \/ \E header \in Headers : \E syms \in BatchLayouts :
                        df' = BatchFile(header, syms)
               /\ UNCHANGED errorLog
    /\ UNCHANGED <<res, op, df2, res2, vary, selected, pos, crypto_name, collab, outcome,
                   deployment>>

(* df[df['symbol'] == symbol]: the rows of the symbol, in table order *)
SymbolRows(df_all, symbol) ==
    [cols |-> df_all.cols,
     rows |-> FilterRows(df_all.rows,
                  Tuple([i \in 1..Len(df_all.rows) |-> df_all.rows[i].c[cSymbol] = symbol]),
                  Len(df_all.rows))]

(* crypto_df.sort_values('dates'): ascending, ties in table order *)
SortByDates(crypto_df) ==
    LET own == crypto_df.rows
        rank(i) == Cardinality({j \in 1..Len(own) :
                       \/ own[j].c[cDates] < own[i].c[cDates]
                       \/ (own[j].c[cDates] = own[i].c[cDates] /\ j <= i)})
    IN  [cols |-> crypto_df.cols,
         rows |-> Tuple([r \in 1..Len(own) |-> own[CHOOSE i \in 1..Len(own) : rank(i) = r]])]

(* extract_crypto_data for one symbol: df[df['symbol'] == symbol].copy(),   *)
(* sorted by 'dates'                                                       *)
extract_crypto_data(df_all, symbol) == SortByDates(SymbolRows(df_all, symbol))

(* df_all = load_data_from_csv(); None raises "Failed to load dataset",    *)
(* which leaves main(); otherwise get_user_selection prints the available  *)
(* symbols and waits in input()                                            *)
LoadDataset ==
    /\ pc = "load"
    /\ LET df_all == load_data_from_csv(df)
       IN  /\ res' = df_all
           /\ IF df_all = None
              THEN MainRaises("load_failed")
              ELSE pc' = "selecting" /\ UNCHANGED errorLog
    /\ op' = [name |-> "load_data_from_csv", args |-> <<>>]
    /\ UNCHANGED <<df, df2, res2, vary, selected, pos, crypto_name, collab, outcome,
                   deployment>>

(* input() returns a line or raises EOFError.  A line with a valid choice  *)
(* makes get_user_selection return selected_symbols; any other line leaves *)
(* it at the prompt; EOFError is not among the exceptions the loop         *)
(* catches, so it leaves main()                                            *)
GetUserSelection ==
    /\ pc = "selecting"
    /\ \/ \E line \in InputLines :
             LET r == Selection(available_symbols(res), line)
             IN  /\ selected' = r.symbols
                 /\ pc' = IF r.kind = "returned" THEN "process" ELSE "selecting"
                 /\ UNCHANGED errorLog
       \/ MainRaises("selection_failed") /\ UNCHANGED selected
    /\ UNCHANGED <<pos, crypto_name, collab, outcome, deployment, tableVars>>

(* process_data: extract_crypto_data builds extracted_data, one table per  *)
(* selected symbol, and save_crypto_data writes each to {symbol}_data.csv  *)
(* in that order; a write that raises leaves main() with the files before  *)
(* it written.  After the last write every key is "pending" and the loop   *)
(* over extracted_data begins                                              *)
ProcessData ==
    /\ pc = "process"
    /\ LET keys == ExtractedKeys(selected)
       IN  \E written \in 0..Len(keys) :
              /\ res2' = IF written = 0 THEN res2
                         ELSE extract_crypto_data(res, keys[written])
              /\ IF written = Len(keys)
                 THEN /\ op' = [name |-> "save_crypto_data", args |-> keys]
                      /\ selected' = keys
                      /\ outcome' = [i \in DOMAIN keys |-> "pending"]
                      /\ pc' = "name"
                      /\ UNCHANGED errorLog
                 ELSE /\ op' = [name |-> "save_crypto_data_raised",
                                args |-> SubSeq(keys, 1, written)]
                      /\ MainRaises("process_failed")
                      /\ UNCHANGED <<selected, outcome>>
    /\ UNCHANGED <<df, res, df2, vary, pos, crypto_name, collab, deployment>>

(* crypto_name = get_crypto_name_from_groq(symbol): a name, or None when   *)
(* the service is unreachable or has no answer (its errors are swallowed)  *)
LookupName ==
    /\ pc = "name"
    /\ \E r \in {"name", "absent"} :
          /\ crypto_name' = r
          /\ pc' = IF r = "name" THEN "social" ELSE "market"
    /\ UNCHANGED <<selected, pos, collab, outcome, errorLog, deployment, tableVars>>

(* except Exception in process_single_crypto: log the symbol and re-raise; *)
(* the loop of main() has no handler of its own, main() logs and re-raises *)
RaiseFrom(stage) ==
    /\ errorLog' = Append(Append(errorLog, selected[pos]), MainError)
    /\ outcome' = [outcome EXCEPT ![pos] = stage]
    /\ pc' = "aborted"

(* analyze_social_data(crypto_name, wiki_visualizer): its first statement  *)
(* calls get_all_wikipedia_edits(crypto_name) without the required         *)
(* output_path argument, which raises TypeError before any fetch is made   *)
AnalyzeSocial ==
    /\ pc = "social"
    /\ \E w \in WikiOutcomes : \E t \in TrendsOutcomes :
          collab' = [wiki |-> w, trends |-> t]
    /\ RaiseFrom("social_error")
    /\ UNCHANGED <<selected, pos, crypto_name, deployment, tableVars>>

(* the for loop of main() moves to the next item of extracted_data *)
Advance ==
    /\ pos' = pos + 1
    /\ pc' = IF pos = Len(selected) THEN "done" ELSE "name"
    /\ crypto_name' = "unset"
    /\ collab' = NoCollab

(* analyze_market_data: plots, calculate_all_indicators, and the write of  *)
(* df_with_indicators to {symbol}_with_indicators.csv; ok = FALSE when a   *)
(* plot or the write raises.  res2 is the table last written, op the write *)
AnalyzeMarket ==
    /\ pc = "market"
    /\ \E ok \in BOOLEAN :
          IF ok
          THEN /\ outcome' = [outcome EXCEPT ![pos] = "analyzed"]
               /\ res2' = calculate_all_indicators(extract_crypto_data(res, selected[pos]))
               /\ op' = [name |-> "to_csv", args |-> <<selected[pos]>>]
               /\ Advance
               /\ UNCHANGED errorLog
          ELSE /\ RaiseFrom("market_error")
               /\ UNCHANGED <<pos, crypto_name, collab, res2, op>>
    /\ UNCHANGED <<selected, df, res, df2, vary, deployment>>

Next ==
    \/ ImportMain
    \/ SetupLogging
    \/ DownloadDataset
    \/ LoadDataset
    \/ GetUserSelection
    \/ ProcessData
    \/ LookupName
    \/ AnalyzeSocial
    \/ AnalyzeMarket

Spec == Init /\ [][Next]_vars

----------------------------------------------------------------------------
(* Properties of the orchestrator (Spec) *)

BatchEnded == pc \in {"done", "aborted"}

(* C1: a failure while processing one instrument is reported with its key  *)
(* and skips only that instrument: when the run ends, every selected       *)
(* instrument was either analyzed or reported as failed, and the run did   *)
(* not abort.                                                              *)
C1_FailureIsolated ==
    BatchEnded =>
        /\ pc = "done"
        /\ \A i \in DOMAIN selected :
              \/ outcome[i] = "analyzed"
              \/ /\ outcome[i] \in {"social_error", "market_error"}
                 /\ \E k \in DOMAIN errorLog : errorLog[k] = selected[i]

(* the processing of instrument i is over: the loop moved past it or the   *)
(* run aborted on it                                                       *)
Processed(i) == i < pos \/ (i = pos /\ pc = "aborted")

(* C2: whatever the name lookup, the edit-history fetch and the            *)
(* search-interest fetch yield, the market-data analysis of the instrument *)
(* is carried out (unless the market analysis itself raises).              *)
C2_CollaboratorsNeverBlock ==
    \A i \in DOMAIN selected :
        (Processed(i) /\ outcome[i] # "market_error") => outcome[i] = "analyzed"

(* the rows of an instrument in the loaded table *)
Records(symbol) ==
    Cardinality({m \in 1..Len(res.rows) : res.rows[m].c[cSymbol] = symbol})

(* C15: an instrument with fewer rows than MINIMUM_RECORDS whose           *)
(* processing did not fail in another stage ends in an insufficient-data   *)
(* outcome: it is skipped, no enriched output is written for it, and the   *)
(* run goes on with the other instruments                                  *)
C15_InsufficientDataSkipped ==
    \A i \in DOMAIN selected :
        (/\ Processed(i)
         /\ Records(selected[i]) < MINIMUM_RECORDS
         /\ outcome[i] \notin {"social_error", "market_error"})
        => (outcome[i] = "insufficient_data" /\ pc # "aborted")

(* the statements of main() before the load, and where they end the run *)
BeforeLoad ==
    pc \in {"import", "import_failed", "setup", "setup_failed", "download",
            "download_failed", "load"}

(* C16: when a required column is absent from the file (names compared     *)
(* after lower-casing and trimming) the load fails and the failure ends    *)
(* the batch: once the load statement has run nothing is loaded and main() *)
(* has raised, and at no time is an instrument selected, processed,        *)
(* reported or written                                                     *)
C16_MissingColumnFatal ==
    (df # NoFile /\ \E j \in 1..Len(required_columns) : ~HasColumn(df, required_columns[j]))
    => /\ ~BeforeLoad => (pc = "load_failed" /\ errorLog = <<MainError>>)
       /\ res = None
       /\ selected = <<>>
       /\ outcome = <<>>
       /\ op.name \notin {"save_crypto_data", "save_crypto_data_raised", "to_csv"}
       /\ res2 = None
       /\ \A k \in DOMAIN errorLog : errorLog[k] = MainError

(* C16 witness: a file of three rows without the volume column, whose      *)
(* symbol column is written with a capital and a trailing blank, was       *)
(* loaded and the batch ended there                                        *)
C16_Witness ==
    /\ pc = "load_failed"
    /\ Len(df.rows) = 3
    /\ ~HasColumn(df, nVolume)
    /\ df.header[1] # nSymbol
    /\ \A j \in 1..Len(required_columns) :
          required_columns[j] # nVolume => HasColumn(df, required_columns[j])

----------------------------------------------------------------------------
(* Moving averages: calculate_sma of the analyzer on the rows it is given, *)
(* and the ma_{period} block of add_all_indicators                         *)

MaxSmaRows == 5

(* the closes of a series: a null cell is what read_csv gives for an empty *)
(* field                                                                   *)
SmaCloses == {NaN, Num(9), Num(10), Num(11), Num(12)}

RsiCloses == {Num(9), Num(10), Num(11), Num(12)}

SmaPeriods == 1..3

MaPeriodLists == {<<3>>, <<1, 2>>}

(* the symbol columns of the tables of n rows: every mix of instruments   *)
(* for the shorter tables, one instrument for the longest                  *)
SmaSymbols(n) ==
    IF n < MaxSmaRows THEN [1..n -> Symbols]
    ELSE {[i \in 1..n |-> sym] : sym \in Symbols}

(* a table of up to MaxSmaRows rows with closes of the set C is loaded *)
InitSeries(C) ==
    /\ \E n \in 0..MaxSmaRows : \E syms \in SmaSymbols(n) :
       \E closes \in [1..n -> C] : \E order \in DateOrders :
          df = TargetTable(n, syms, closes, order)
    /\ res = df
    /\ op = Loaded
    /\ NoVariant
    /\ NoBatch

InitSma == InitSeries(SmaCloses)

(* res = df with SMA = TechnicalAnalysis.calculate_sma(df, period) *)
CalculateSma ==
    /\ op.name = "load"
    /\ \E period \in SmaPeriods :
          /\ res' = WithColumns(df, Key("SMA") :> calculate_sma(df.rows, period))
          /\ op' = [name |-> "calculate_sma", args |-> <<period>>]
    /\ UNCHANGED <<df, df2, res2, vary, orchVars>>

(* res = TechnicalIndicators.add_all_indicators(df, ma_periods, ...), the  *)
(* only way to the ma_{period} columns; the other periods are those of the *)
(* configuration                                                           *)
AddIndicatorsToSeries ==
    /\ op.name = "load"
    /\ \E ma_periods \in MaPeriodLists :
          LET P == [ConfigParams EXCEPT !.ma = ma_periods]
          IN  /\ res' = add_all_indicators(df, P.ma, P.rsi, P)
              /\ op' = [name |-> "add_all_indicators", args |-> <<P>>]
    /\ UNCHANGED <<df, df2, res2, vary, orchVars>>

NextSma == CalculateSma \/ AddIndicatorsToSeries

SpecSma == InitSma /\ [][NextSma]_vars

(* the sum of the closes of the rows whose positions are in S *)
RECURSIVE SumCloses(_, _)
SumCloses(rows, S) ==
    IF S = {} THEN Num(0)
    ELSE LET j == CHOOSE j \in S : TRUE
         IN  QAdd(rows[j].c[cClose], SumCloses(rows, S \ {j}))

(* the rows of df of the instrument of row i dated no later than row i *)
OwnPast(i) ==
    {j \in 1..Len(df.rows) :
        /\ df.rows[j].c[cSymbol] = df.rows[i].c[cSymbol]
        /\ df.rows[j].c[cDate] <= df.rows[i].c[cDate]}

(* the latest k rows of OwnPast(i) *)
LastOwn(i, k) ==
    {j \in OwnPast(i) :
        Cardinality({m \in OwnPast(i) : df.rows[m].c[cDate] >= df.rows[j].c[cDate]}) <= k}

ScenarioCloses == <<Num(10), Num(11), Num(9), Num(12), Num(12)>>

(* the strict policy at the rows of res: null at the first p-1 rows, then  *)
(* the mean of the closes of rows i-p+1..i, null when one of them is null  *)
StrictWindows(p) ==
    /\ \A i \in 1..Len(res.rows) :
          IF i < p THEN IsNaN(res.rows[i].c[Key("SMA")])
          ELSE res.rows[i].c[Key("SMA")]
                  = QDiv(SumCloses(df.rows, (i - p + 1)..i), Num(p))
    /\ (Column(df.rows, cClose) = ScenarioCloses /\ p = 3) =>
          /\ IsNaN(res.rows[1].c[Key("SMA")])
          /\ IsNaN(res.rows[2].c[Key("SMA")])
          /\ res.rows[3].c[Key("SMA")] = Num(10)

(* C19: calculate_sma gives at row i the mean of the closes of rows        *)
(* i-p+1..i and null at the first p-1 rows (for closes 10, 11, 9, 12, 12   *)
(* and p = 3: null, null, 10); add_all_indicators returns a table whose    *)
(* ma_p gives at a row the mean of the last min(t+1, p) closes of the      *)
(* row's instrument in date order and is never null                        *)
C19_SmaPolicies ==
    /\ op.name = "calculate_sma" => StrictWindows(op.args[1])
    /\ op.name = "add_all_indicators" =>
          /\ res # None
          /\ \A m \in 1..Len(res.rows) : \A a \in 1..Len(op.args[1].ma) :
                LET i == res.rows[m].idx + 1
                    p == op.args[1].ma[a]
                    k == IF Cardinality(OwnPast(i)) < p THEN Cardinality(OwnPast(i)) ELSE p
                    v == res.rows[m].c[<<"ma", p>>]
                IN  /\ ~IsNaN(v)
                    /\ v = QDiv(SumCloses(df.rows, LastOwn(i, k)), Num(k))

(* Lemma: the strict policy of calculate_sma, on every series *)
StrictSmaPolicy ==
    op.name = "calculate_sma" => StrictWindows(op.args[1])

(* the scenario, closes 10, 11, 9, 12, 12 of one instrument in date order  *)
(* under calculate_sma with period 3                                       *)
ScenarioAveraged ==
    /\ op.name = "calculate_sma"
    /\ op.args = <<3>>
    /\ Column(df.rows, cClose) = ScenarioCloses
    /\ \A i \in 1..Len(df.rows) : df.rows[i].c[cSymbol] = "A" /\ df.rows[i].c[cDate] = i

(* a series with a null close inside a full window of calculate_sma *)
NullCloseAveraged ==
    /\ op.name = "calculate_sma"
    /\ op.args = <<2>>
    /\ Len(df.rows) = 3
    /\ IsNaN(df.rows[2].c[cClose])
    /\ ~IsNaN(df.rows[1].c[cClose])
    /\ IsNaN(res.rows[3].c[Key("SMA")])

(* add_all_indicators was called on the scenario and returned no table *)
ScenarioIndicatorsRaised ==
    /\ op.name = "add_all_indicators"
    /\ op.args[1].ma = <<3>>
    /\ Column(df.rows, cClose) = ScenarioCloses
    /\ res = None

----------------------------------------------------------------------------
(* RSI of the analyzer on the rows it is given *)

RsiPeriods == 1..3

(* res = df with RSI = TechnicalAnalysis.calculate_rsi(df, period) *)
CalculateRsi ==
    /\ op.name = "load"
    /\ \E period \in RsiPeriods :
          /\ res' = WithColumns(df, Key("RSI") :> calculate_rsi(df.rows, period))
          /\ op' = [name |-> "calculate_rsi", args |-> <<period>>]
    /\ UNCHANGED <<df, df2, res2, vary, orchVars>>

InitRsi == InitSeries(RsiCloses)

SpecRsi == InitRsi /\ [][CalculateRsi]_vars

(* the rise of close at row i of df over the row before, 0 at the first    *)
(* row and where close did not rise; likewise the fall                     *)
RiseAt(i) ==
    IF i > 1 /\ QGt(df.rows[i].c[cClose], df.rows[i - 1].c[cClose])
    THEN QSub(df.rows[i].c[cClose], df.rows[i - 1].c[cClose]) ELSE Num(0)

FallAt(i) ==
    IF i > 1 /\ QLt(df.rows[i].c[cClose], df.rows[i - 1].c[cClose])
    THEN QSub(df.rows[i - 1].c[cClose], df.rows[i].c[cClose]) ELSE Num(0)

(* the window of rows lo..hi has no rise, no fall *)
NoRise(lo, hi) == \A j \in lo..hi : RiseAt(j) = Num(0)

NoFall(lo, hi) == \A j \in lo..hi : FallAt(j) = Num(0)

(* C20: at every row whose window of p rows is complete, RSI is exactly    *)
(* 100 when the window has no fall and some rise (avg_loss = 0,            *)
(* avg_gain > 0), and null when it has neither (avg_loss = avg_gain = 0)   *)
C20_RsiZeroLoss ==
    op.name = "calculate_rsi" =>
        LET p == op.args[1]
        IN  \A i \in p..Len(res.rows) :
               NoFall(i - p + 1, i) =>
                  IF NoRise(i - p + 1, i)
                  THEN IsNaN(res.rows[i].c[Key("RSI")])
                  ELSE res.rows[i].c[Key("RSI")] = Num(100)

(* C20 witness: with period 2, a row after a constant window (RSI null)    *)
(* and a later row whose window only rose (RSI 100)                        *)
C20_Witness ==
    /\ op.name = "calculate_rsi"
    /\ op.args = <<2>>
    /\ \E i, j \in 3..Len(res.rows) :
          /\ NoFall(i - 1, i) /\ NoRise(i - 1, i)
          /\ IsNaN(res.rows[i].c[Key("RSI")])
          /\ NoFall(j - 1, j) /\ ~NoRise(j - 1, j)
          /\ res.rows[j].c[Key("RSI")] = Num(100)

(* C21: every non-null RSI that calculate_rsi returns is a finite number  *)
(* between 0 and 100 inclusive                                             *)
C21_RsiBounded ==
    op.name = "calculate_rsi" =>
        \A i \in 1..Len(res.rows) :
            LET rsi == res.rows[i].c[Key("RSI")]
            IN  ~IsNaN(rsi) =>
                   /\ ~IsInf(rsi)
                   /\ ~QLt(rsi, Num(0))
                   /\ ~QGt(rsi, Num(100))

(* C21 witness: a table on which RSI takes 0, 100 and a value strictly     *)
(* between them                                                            *)
C21_Witness ==
    /\ op.name = "calculate_rsi"
    /\ \E i, j, k \in 1..Len(res.rows) :
          /\ res.rows[i].c[Key("RSI")] = Num(0)
          /\ res.rows[j].c[Key("RSI")] = Num(100)
          /\ QGt(res.rows[k].c[Key("RSI")], Num(0))
          /\ QLt(res.rows[k].c[Key("RSI")], Num(100))

(* the sums of the rises and of the falls over rows lo..hi of df *)
RECURSIVE SumRise(_, _)
SumRise(lo, hi) == IF lo > hi THEN Num(0) ELSE QAdd(SumRise(lo, hi - 1), RiseAt(hi))

RECURSIVE SumFall(_, _)
SumFall(lo, hi) == IF lo > hi THEN Num(0) ELSE QAdd(SumFall(lo, hi - 1), FallAt(hi))

(* C29 as stated: RSI is null only at the first p-1 rows, and from the     *)
(* p-th row on it is computed from the rises and falls of the p rows       *)
(* ending there, the first row of the table counting as a rise of 0 and a  *)
(* fall of 0                                                               *)
C29_Original ==
    op.name = "calculate_rsi" =>
        LET p == op.args[1]
        IN  \A i \in 1..Len(res.rows) :
               /\ IsNaN(res.rows[i].c[Key("RSI")]) <=> i < p
               /\ i >= p =>
                     res.rows[i].c[Key("RSI")]
                       = QSub(Num(100), QDiv(Num(100), QAdd(Num(1),
                            QDiv(QDiv(SumRise(i - p + 1, i), Num(p)),
                                 QDiv(SumFall(i - p + 1, i), Num(p))))))

(* C29 amended: RSI is null at the first p-1 rows; from the p-th row on it *)
(* is 100 - 100 / (1 + rs) with rs the ratio of the mean rise to the mean  *)
(* fall over the p rows ending there, the first row of the table counting  *)
(* as a rise of 0 and a fall of 0 (the window ending at the p-th row holds *)
(* p-1 price changes, every later window p), and it is null there exactly  *)
(* when the window has neither a rise nor a fall                           *)
C29_FirstDeltaCountsAsZero ==
    op.name = "calculate_rsi" =>
        LET p == op.args[1]
        IN  \A i \in 1..Len(res.rows) :
               IF i < p THEN IsNaN(res.rows[i].c[Key("RSI")])
               ELSE /\ res.rows[i].c[Key("RSI")]
                         = QSub(Num(100), QDiv(Num(100), QAdd(Num(1),
                              QDiv(QDiv(SumRise(i - p + 1, i), Num(p)),
                                   QDiv(SumFall(i - p + 1, i), Num(p))))))
                    /\ IsNaN(res.rows[i].c[Key("RSI")])
                          <=> (NoRise(i - p + 1, i) /\ NoFall(i - p + 1, i))

(* C29 witness: with period 3 the second row is null, the third row, whose *)
(* window starts at the first row of the table, has an RSI, and a later    *)
(* row with a constant window is null again                                *)
C29_Witness ==
    /\ op.name = "calculate_rsi"
    /\ op.args = <<3>>
    /\ Len(res.rows) = 5
    /\ IsNaN(res.rows[2].c[Key("RSI")])
    /\ ~IsNaN(res.rows[3].c[Key("RSI")])
    /\ NoRise(3, 5) /\ NoFall(3, 5)
    /\ IsNaN(res.rows[5].c[Key("RSI")])

----------------------------------------------------------------------------
(* Stochastic oscillator of the analyzer on the rows it is given *)

MaxStochRows == 3

(* <<close, low, high>>, each price 1 or 2, in any relation to one another *)
StochBars == {<<Num(c), Num(l), Num(h)>> : c \in 1..2, l \in 1..2, h \in 1..2}

StochPeriods == 1..2

InitStoch ==
    /\ \E n \in 0..MaxStochRows : \E bars \in [1..n -> StochBars] :
          df = FeatureTable(n, Tuple([i \in 1..n |-> "A"]), bars, ("A" :> 1) @@ ("B" :> 1))
    /\ res = df
    /\ op = Loaded
    /\ NoVariant
    /\ NoBatch

(* res = df with the columns K and D of calculate_stochastic_oscillator *)
CalculateStochastic ==
    /\ op.name = "load"
    /\ \E k_period \in StochPeriods : \E d_period \in StochPeriods :
          LET stoch_data == calculate_stochastic_oscillator(df.rows, k_period, d_period)
          IN  /\ res' = WithColumns(df, (Key("K") :> stoch_data.K) @@ (Key("D") :> stoch_data.D))
              /\ op' = [name |-> "calculate_stochastic_oscillator",
                        args |-> <<k_period, d_period>>]
    /\ UNCHANGED <<df, df2, res2, vary, orchVars>>

SpecStoch == InitStoch /\ [][CalculateStochastic]_vars

(* rolling_max(high, k) - rolling_min(low, k) at row i of df *)
RollingRange(i, k) ==
    QSub(RollingMax(Column(df.rows, cHigh), k)[i], RollingMin(Column(df.rows, cLow), k)[i])

(* C22: at every row where the rolling range is zero, %K is null, whatever *)
(* the close of the row                                                    *)
C22_ZeroRangeNullK ==
    op.name = "calculate_stochastic_oscillator" =>
        \A i \in 1..Len(res.rows) :
            RollingRange(i, op.args[1]) = Num(0) => IsNaN(res.rows[i].c[Key("K")])

(* Lemma: where the rolling range is zero and the close of the row lies    *)
(* between its low and its high, %K is null                                *)
ZeroRangeNullWithinBar ==
    op.name = "calculate_stochastic_oscillator" =>
        \A i \in 1..Len(res.rows) :
            (/\ RollingRange(i, op.args[1]) = Num(0)
             /\ ~QLt(df.rows[i].c[cClose], df.rows[i].c[cLow])
             /\ ~QGt(df.rows[i].c[cClose], df.rows[i].c[cHigh]))
            => IsNaN(res.rows[i].c[Key("K")])

----------------------------------------------------------------------------
(* The table written for an instrument (Spec) *)

IndicatorColumns ==
    {Key("SMA_20"), Key("SMA_50"), Key("EMA_20"), Key("RSI"), Key("MACD"),
     Key("MACD_Signal"), Key("MACD_Histogram"), Key("BB_Middle"), Key("BB_Upper"),
     Key("BB_Lower"), Key("Stoch_K"), Key("Stoch_D")}

(* the stages whose work is visible in a table *)
IndicatorsComputed(t) == IndicatorColumns \subseteq t.cols

TargetsComputed(t) ==
    \E k \in t.cols : k[1] \in {"future_price", "return", "direction", "volatility"}

Cleaned(t) == \A i \in 1..Len(t.rows) : \A k \in t.cols : ~IsNull(k, t.rows[i].c[k])

WasScaled(t) == \E k \in t.cols : Len(k) = 3 /\ k[3] = "scaled"

(* C23: a table written for an instrument, by process_data or by           *)
(* analyze_market_data, has been through the indicator, target, cleaning   *)
(* and scaling stages, in that order, before it is persisted               *)
C23_StagesBeforePersist ==
    op.name \in {"save_crypto_data", "to_csv"} =>
        /\ IndicatorsComputed(res2)
        /\ TargetsComputed(res2)
        /\ Cleaned(res2)
        /\ WasScaled(res2)

----------------------------------------------------------------------------
(* Calls of the table components as their caller sees them: df is the      *)
(* caller's table, df2 its value before the call, res the table returned.  *)

MaxFrameRows == 3

FrameCloses == {NaN, Num(0), Num(1), Num(2)}

FrameCols == {cSymbol, cDate, cDates, Key("open"), cHigh, cLow, cClose, cVolume}

(* the i-th row of a well-formed file as read_csv reads it: the timestamp  *)
(* under both of its names, every price equal to the close                 *)
FrameRow(i, sym, close) ==
    [idx |-> i - 1,
     c |-> (cSymbol :> sym) @@ (cDate :> i) @@ (cDates :> i) @@ (Key("open") :> close) @@
           (cHigh :> close) @@ (cLow :> close) @@ (cClose :> close) @@ (cVolume :> Num(1))]

(* the table load_data_from_csv returns for the file of these rows: sorted *)
(* by symbol and dates, each row under the index label of its place in the *)
(* file; the dates of the file are distinct, no row is dropped             *)
FrameTable(n, syms, closes) ==
    [cols |-> FrameCols,
     rows |-> drop_duplicates(SortBySymbolDates(
                  Tuple([i \in 1..n |-> FrameRow(i, syms[i], closes[i])])))]

InitFrame ==
    /\ \E n \in 0..MaxFrameRows : \E syms \in [1..n -> Symbols] :
       \E closes \in [1..n -> FrameCloses] :
          df = FrameTable(n, syms, closes)
    /\ res = df
    /\ op = Loaded
    /\ df2 = EmptyTable
    /\ res2 = EmptyTable
    /\ vary = NoVary
    /\ NoBatch

(* TargetGenerator.add_targets: the column assignments of lines 13-30 for  *)
(* each horizon of the list                                                *)
RECURSIVE HorizonLoop(_, _)
HorizonLoop(f, prediction_horizons) ==
    IF prediction_horizons = <<>> THEN f
    ELSE HorizonLoop(Assign(f, AddHorizon(Bound(f), Head(prediction_horizons))),
                     Tail(prediction_horizons))

(* df = df.copy() (line 9), the loop, return df *)
AddTargetsCall(t, prediction_horizons) ==
    HorizonLoop(DataFrameCopy(Enter(t)), prediction_horizons)

(* DataProcessor.clean_data: df = df.copy() (line 12); df = df[...] twice  *)
(* (15-16); df[technical_columns] = ... (21); df = df.dropna() (24)        *)
CleanDataCall(t) ==
    LET copied == DataFrameCopy(Enter(t))
        valid == Rebind(copied, RemoveInvalid(Bound(copied)))
        filled == Assign(valid, ForwardFill(Bound(valid)))
    IN  Rebind(filled, DropNa(Bound(filled)))

(* TechnicalAnalysis.calculate_all_indicators: results = data.copy() (line *)
(* 91), then results[...] = ... for each indicator of data (94-114)        *)
CalculateAllIndicatorsCall(data) ==
    LET results == DataFrameCopy(Enter(data))
    IN  Assign(results, calculate_all_indicators(Bound(results)))

(* TechnicalIndicators.add_all_indicators: df = df.copy() (line 10);       *)
(* df = df.sort_values('date') (13); df[f'ma_{period}'] = ... (16-19); the *)
(* statement of lines 26-28 calls a DataFrame and raises                   *)
AddAllIndicatorsCall(t, ma_periods, rsi_period, macd_params) ==
    LET copied == DataFrameCopy(Enter(t))
        sorted == Rebind(copied, SortByDate(Bound(copied)))
    IN  Raise(Assign(sorted, WithColumns(Bound(sorted),
                                         MaColumns(Bound(sorted).rows, ma_periods))))

(* extract_crypto_data for one symbol: crypto_df = df[df['symbol'] ==      *)
(* symbol].copy() (line 31); crypto_df['dates'] = pd.to_datetime(...)      *)
(* (34), which leaves the timestamps of a loaded table as they are;        *)
(* crypto_df = crypto_df.sort_values('dates') (37)                         *)
ExtractCall(df_all, symbol) ==
    LET crypto_df == DataFrameCopy(Rebind(Enter(df_all), SymbolRows(df_all, symbol)))
        dated == Assign(crypto_df, Bound(crypto_df))
    IN  Rebind(dated, SortByDates(Bound(dated)))

(* the caller after the call f: df is the table its name is still bound    *)
(* to, res what the call returned                                          *)
Called(name, args, f) ==
    /\ df2' = df
    /\ df' = f.objs[1]
    /\ res' = Returned(f)
    /\ op' = [name |-> name, args |-> args]
    /\ UNCHANGED <<res2, vary, orchVars>>

CallExtract ==
    /\ op.name = "load"
    /\ \E symbol \in Symbols :
          Called("extract_crypto_data", <<symbol>>, ExtractCall(df, symbol))

CallCalculateAllIndicators ==
    /\ op.name = "load"
    /\ Steady(df)
    /\ Called("calculate_all_indicators", <<>>, CalculateAllIndicatorsCall(df))

CallAddAllIndicators ==
    /\ op.name = "load"
    /\ \E P \in BlockParams :
          Called("add_all_indicators", <<P>>, AddAllIndicatorsCall(df, P.ma, P.rsi, P))

CallAddTargets ==
    /\ op.name = "load"
    /\ \E hs \in HorizonLists :
          Called("add_targets", hs, AddTargetsCall(df, hs))

CallCleanData ==
    /\ op.name = "load"
    /\ Called("clean_data", <<>>, CleanDataCall(df))

CallScaleFeatures ==
    /\ op.name = "load"
    /\ \E features_to_scale \in {<<cClose, cVolume>>, <<cReturn1, cClose>>} :
          Called("scale_features", <<features_to_scale>>,
                 ScaleFeaturesCall(<<>>, df, features_to_scale).f)

NextFrame ==
    \/ CallExtract
    \/ CallCalculateAllIndicators
    \/ CallAddAllIndicators
    \/ CallAddTargets
    \/ CallCleanData
    \/ CallScaleFeatures

SpecFrame == InitFrame /\ [][NextFrame]_vars

FrameCalls ==
    {"extract_crypto_data", "calculate_all_indicators", "add_all_indicators",
     "add_targets", "clean_data", "scale_features"}

(* C24: after a call of any of the six components the caller's table has   *)
(* the rows, columns and values it had before the call; what the call      *)
(* added, removed or scaled is in the returned table only                  *)
C24_InputNotMutated ==
    op.name \in FrameCalls => df = df2

(* C24 witness: add_targets returned a table with more columns than the    *)
(* three-row table it was given                                            *)
C24_Witness ==
    /\ op.name = "add_targets"
    /\ Len(df2.rows) = 3
    /\ res # None
    /\ res.cols # df2.cols
    /\ df.cols = FrameCols

(* Lemma: the table each call returns is the table of the operator of the  *)
(* component, computed from the table the caller had before the call       *)
CallsReturnTheirTables ==
    /\ op.name = "extract_crypto_data" => res = extract_crypto_data(df2, op.args[1])
    /\ op.name = "calculate_all_indicators" => res = calculate_all_indicators(df2)
    /\ op.name = "add_all_indicators" =>
          res = add_all_indicators(df2, op.args[1].ma, op.args[1].rsi, op.args[1])
    /\ op.name = "add_targets" => res = add_targets(df2, op.args)
    /\ op.name = "clean_data" => res = clean_data(df2)
    /\ op.name = "scale_features" => res = scale_features(df2, op.args[1])

(* C25: on a well-formed table of at least one row add_all_indicators      *)
(* returns, and the table returned has the columns ma_p for each period,   *)
(* rsi, macd, macd_signal, macd_hist, bb_middle, bb_std, bb_upper,         *)
(* bb_lower and momentum                                                   *)
C25_AddAllIndicatorsCompletes ==
    (op.name = "add_all_indicators" /\ Len(df.rows) >= 1) =>
        /\ res # None
        /\ BlockColumns(op.args[1]) \cup {Key("rsi")} \subseteq res.cols

----------------------------------------------------------------------------
(* Cleaning the output of add_targets (SpecTargets) *)

(* C26: when the horizons contain 1, volatility_1d is null at every row    *)
(* add_targets returns, and clean_data of that table has no row            *)
C26_HorizonOneEmptiesTable ==
    /\ (op.name = "add_targets" /\ 1 \in Horizons) =>
          \A i \in 1..Len(res.rows) : IsNaN(Cell(res, i, "volatility", 1))
    /\ (op.name = "clean_targets" /\ 1 \in Horizons) => Len(res.rows) = 0

(* C26 witness: a table of three rows with positive closes and volumes,    *)
(* two of them of one instrument, was given targets for the horizons 1 and *)
(* MaxHorizon and then cleaned                                             *)
C26_Witness ==
    /\ op.name = "clean_targets"
    /\ op.args = <<1, MaxHorizon>>
    /\ Len(df.rows) = 3
    /\ \A i \in 1..3 : QGt(df.rows[i].c[cClose], Num(0))
    /\ \E i, j \in 1..3 : i # j /\ df.rows[i].c[cSymbol] = df.rows[j].c[cSymbol]
    /\ Len(res.rows) = 0

----------------------------------------------------------------------------
(* GoogleTrendsFetcher.fetch_trends, one call.  pos is the loop variable   *)
(* attempt, errorLog the trail of what happened (one entry per attempt,    *)
(* and "sleep" for each time.sleep), outcome the value returned, pc:       *)
(*   "attempt"   about to run the body of the for loop                     *)
(*   "sleep"     in the except branch, about to time.sleep(sleep_time)     *)
(*   "returned"  fetch_trends has returned                                 *)

retry_count == 3

sleep_time == 5

TrendNames == {"bitcoin", "ether"}

(* what an attempt meets: a frame with data, a frame with data but without *)
(* the isPartial column (drop raises KeyError), an empty frame, an         *)
(* exception from build_payload, an exception from interest_over_time      *)
AttemptResults == {"data", "no_isPartial", "empty", "payload_raises", "interest_raises"}

AttemptRaised == {"no_isPartial", "payload_raises", "interest_raises"}

InitTrends ==
    /\ crypto_name \in TrendNames
    /\ pc = "attempt"
    /\ pos = 0
    /\ errorLog = <<>>
    /\ outcome = <<>>
    /\ selected = <<>>
    /\ collab = NoCollab
    /\ df = EmptyTable
    /\ res = EmptyTable
    /\ op = [name |-> "fetch_trends", args |-> <<>>]
    /\ NoVariant
    /\ deployment = AsRepository

(* the except branch sleeps after every attempt, whatever it met, but the  *)
(* last                                                                    *)
SleepsAfterAny(r, attempt) == attempt < retry_count - 1

(* the wait: only in the except branch, and only if attempt is not the last *)
SleepsAfter(r, attempt) == r \in AttemptRaised /\ attempt < retry_count - 1

(* one pass through the body of the for loop *)
Attempt ==
    /\ pc = "attempt"
    /\ pos < retry_count
    /\ \E r \in AttemptResults :
          /\ errorLog' = Append(errorLog, r)
          /\ IF r = "data"
             THEN /\ pc' = "returned"
                  /\ outcome' = <<"data">>
                  /\ pos' = pos
             ELSE IF SleepsAfter(r, pos)
             THEN /\ pc' = "sleep"
                  /\ UNCHANGED <<outcome, pos>>
             ELSE IF r \in AttemptRaised \/ pos = retry_count - 1
             THEN /\ pc' = "returned"
                  /\ outcome' = <<"None">>
                  /\ pos' = pos
             ELSE /\ pc' = "attempt"
                  /\ pos' = pos + 1
                  /\ UNCHANGED outcome
    /\ UNCHANGED <<crypto_name, selected, collab, deployment, tableVars>>

(* time.sleep(self.sleep_time); continue *)
Sleep ==
    /\ pc = "sleep"
    /\ errorLog' = Append(errorLog, "sleep")
    /\ pos' = pos + 1
    /\ pc' = "attempt"
    /\ UNCHANGED <<outcome, crypto_name, selected, collab, deployment, tableVars>>

NextTrends == Attempt \/ Sleep

SpecTrends == InitTrends /\ [][NextTrends]_vars

(* the attempts made so far *)
AttemptsMade == Cardinality({k \in 1..Len(errorLog) : errorLog[k] # "sleep"})

(* C27: at most retry_count attempts are made; the call returns the data   *)
(* of the first attempt that yields a non-empty result and makes no        *)
(* attempt after it, and returns None otherwise; it only ever returns; a   *)
(* wait follows exactly the attempts that raised and were not the last;    *)
(* an attempt with an empty result is followed by the next with no wait    *)
C27_BoundedRetries ==
    /\ AttemptsMade <= 3
    /\ pc \in {"attempt", "sleep", "returned"}
    /\ \A k \in 1..Len(errorLog) : errorLog[k] = "data" => (k = Len(errorLog) /\ pc = "returned")
    /\ pc = "returned" =>
          /\ outcome = IF errorLog[Len(errorLog)] = "data" THEN <<"data">> ELSE <<"None">>
          /\ errorLog[Len(errorLog)] # "sleep"
          /\ errorLog[Len(errorLog)] # "data" => AttemptsMade = 3 \/ errorLog[Len(errorLog)] \in AttemptRaised
    /\ pc # "returned" => outcome = <<>>
    /\ \A k \in 1..Len(errorLog) :
          /\ errorLog[k] = "sleep" =>
                /\ k > 1
                /\ errorLog[k - 1] \in AttemptRaised
                /\ Cardinality({j \in 1..k : errorLog[j] # "sleep"}) < 3
          /\ (errorLog[k] \in AttemptRaised /\ k < Len(errorLog)) => errorLog[k + 1] = "sleep"
          /\ (errorLog[k] = "empty" /\ k < Len(errorLog)) => errorLog[k + 1] # "sleep"
    /\ (pc = "returned" /\ errorLog[Len(errorLog)] \in AttemptRaised) => AttemptsMade = 3

(* C27 witness: an empty result, then an attempt that raised and a wait,   *)
(* then data on the third attempt, returned                                *)
C27_Witness ==
    /\ pc = "returned"
    /\ outcome = <<"data">>
    /\ errorLog = <<"empty", "interest_raises", "sleep", "data">>

----------------------------------------------------------------------------
(* get_user_selection(available_symbols), one call.  op.args holds         *)
(* available_symbols; an input line is the sequence of its comma-separated *)
(* tokens, each a sequence of characters; errorLog is the trail of the     *)
(* lines entered, outcome what each line led to, selected the list         *)
(* returned; pc is "prompt" while the while loop runs, then "returned", or  *)
(* "raised" when input() met end of file.                                  *)

MaxPrompts == 2

InitSelect ==
    /\ \E available \in AvailableLists :
          op = [name |-> "get_user_selection", args |-> available]
    /\ pc = "prompt"
    /\ selected = <<>>
    /\ errorLog = <<>>
    /\ outcome = <<>>
    /\ pos = 0
    /\ crypto_name = "unset"
    /\ collab = NoCollab
    /\ df = EmptyTable
    /\ res = EmptyTable
    /\ NoVariant
    /\ deployment = AsRepository

(* one pass of the while loop: a line is read and handled *)
Prompt ==
    /\ pc = "prompt"
    /\ Len(errorLog) < MaxPrompts
    /\ \E line \in InputLines :
          LET r == Selection(op.args, line)
          IN  /\ errorLog' = Append(errorLog, line)
              /\ outcome' = Append(outcome, r.kind)
              /\ selected' = r.symbols
              /\ pc' = IF r.kind = "returned" THEN "returned" ELSE "prompt"
    /\ UNCHANGED <<pos, crypto_name, collab, deployment, tableVars>>

(* input() meets end of file: EOFError, which the loop does not catch,     *)
(* leaves the call                                                         *)
EndOfInput ==
    /\ pc = "prompt"
    /\ pc' = "raised"
    /\ UNCHANGED <<selected, errorLog, outcome, pos, crypto_name, collab, deployment,
                   tableVars>>

NextSelect == Prompt \/ EndOfInput

SpecSelect == InitSelect /\ [][NextSelect]_vars

(* a token that names a position of available_symbols: decimal digits,     *)
(* blanks around them allowed, with a value from 1 to the number of symbols *)
ValidToken(tok) ==
    /\ Strip(tok) # <<>>
    /\ \A j \in 1..Len(Strip(tok)) : Strip(tok)[j] \in {"0", "1", "2", "9"}
    /\ IntOf(Strip(tok)) >= 1
    /\ IntOf(Strip(tok)) <= Len(op.args)

ValidTokens(line) == SelectSeq(line, ValidToken)

(* C28: the call returns only on a line with at least one valid token, and *)
(* then the non-empty list of the symbols at the entered 1-based           *)
(* positions, in the order entered, all of them available; the other       *)
(* tokens are ignored; a line without a valid token leads to another       *)
(* prompt                                                                  *)
C28_SelectionValid ==
    /\ \A k \in 1..Len(errorLog) :
          /\ ValidTokens(errorLog[k]) = <<>> => outcome[k] # "returned"
          /\ outcome[k] = "returned" => (k = Len(errorLog) /\ pc = "returned")
          /\ outcome[k] \in {"returned", "no_valid", "invalid"}
    /\ pc \in {"prompt", "raised"} => selected = <<>>
    /\ pc = "returned" =>
          LET line == errorLog[Len(errorLog)]
          IN  /\ selected # <<>>
              /\ \A k \in 1..Len(selected) : \E j \in 1..Len(op.args) : selected[k] = op.args[j]
              /\ Len(selected) = Len(ValidTokens(line))
              /\ \A k \in 1..Len(selected) :
                    selected[k] = op.args[IntOf(Strip(ValidTokens(line)[k]))]

(* C28 witness: after a line without a valid token (a zero and a word) a   *)
(* line with a blank-padded 2 and an out-of-range 9 returned the second    *)
(* symbol                                                                  *)
C28_Witness ==
    /\ pc = "returned"
    /\ errorLog = << <<(<<"0">>), (<<"x">>)>>, <<(<<" ", "2", " ">>), (<<"9">>)>> >>
    /\ selected = <<"B">>

----------------------------------------------------------------------------
(* scale_features on one DataProcessor instance, call after call.          *)
(* outcome.scalers is self.scalers, a mapping symbol -> feature -> scaler, *)
(* outcome.before its value when the last call began; df is the table of   *)
(* the last call, res what it returned, res2 what a fresh instance returns *)
(* for the same arguments; pos counts the calls.                           *)

MaxCalls == 2

MaxHistoryRows == 2

InitScalers ==
    /\ outcome = [scalers |-> <<>>, before |-> <<>>]
    /\ pos = 0
    /\ df = EmptyTable
    /\ res = EmptyTable
    /\ op = Loaded
    /\ NoVariant
    /\ pc = "idle"
    /\ selected = <<>>
    /\ crypto_name = "unset"
    /\ collab = NoCollab
    /\ errorLog = <<>>
    /\ deployment = AsRepository

(* res = self.scale_features(t, features_to_scale) on the instance, and    *)
(* res2 = the same call on a DataProcessor() made for it                   *)
CallOnInstance ==
    /\ pos < MaxCalls
    /\ \E n \in 0..MaxHistoryRows : \E syms \in [1..n -> Symbols] :
       \E closes \in [1..n -> ScaleInputs] : \E rets \in [1..n -> ScaleReturns] :
       \E features_to_scale \in {<<cClose, cVolume>>, <<cReturn1, cClose>>} :
       \E call \in {ScaleFeaturesCall(outcome.scalers, ScaleTable(n, syms, closes, rets),
                                      features_to_scale)} :
       \E fresh \in {ScaleFeaturesCall(<<>>, call.f.objs[1], features_to_scale)} :
              /\ df' = call.f.objs[1]
              /\ res' = Returned(call.f)
              /\ res2' = Returned(fresh.f)
              /\ outcome' = [scalers |-> call.scalers, before |-> outcome.scalers]
              /\ op' = [name |-> IF call.f.raised
                                 THEN "scale_features_raised" ELSE "scale_features",
                        args |-> <<features_to_scale>>]
    /\ pos' = pos + 1
    /\ UNCHANGED <<df2, vary, pc, selected, crypto_name, collab, errorLog, deployment>>

SpecScalers == InitScalers /\ [][CallOnInstance]_vars

(* C30: whatever calls the instance has served, the table returned is the  *)
(* one a fresh instance returns for the same table and features (none from *)
(* either when the call raises), and every (symbol, feature) entry the     *)
(* mapping had before the call is still there                              *)
C30_HistoryIndependent ==
    op.name \in {"scale_features", "scale_features_raised"} =>
        /\ res = res2
        /\ \A symbol \in DOMAIN outcome.before :
              /\ symbol \in DOMAIN outcome.scalers
              /\ DOMAIN outcome.before[symbol] \subseteq DOMAIN outcome.scalers[symbol]

(* C30 witness: the second call scaled close for instrument A, whose       *)
(* stored scaler had been fitted on other values by the first call, and    *)
(* the mapping keeps an entry of the first call that the second did not    *)
(* touch                                                                   *)
C30_Witness ==
    /\ op.name = "scale_features"
    /\ pos = 2
    /\ Len(df.rows) = 2
    /\ "A" \in DOMAIN outcome.before
    /\ cClose \in DOMAIN outcome.before["A"]
    /\ outcome.before["A"][cClose].fitted
    /\ "A" \in SymbolsOf(df)
    /\ outcome.before["A"][cClose] # outcome.scalers["A"][cClose]
    /\ \E symbol \in DOMAIN outcome.before : symbol \notin SymbolsOf(df)

(* Lemma: the statement-by-statement call returns the table of the         *)
(* operator scale_features, and raises where ScaleRaises tells             *)
InstanceReturnsScaleFeatures ==
    op.name \in {"scale_features", "scale_features_raised"} =>
        /\ res = scale_features(df, op.args[1])
        /\ (op.name = "scale_features_raised") = ScaleRaises(df, op.args[1])

(* Lemma: what the call leaves in the mapping for a pass that ran is the   *)
(* scaler fitted on this table's values alone, or the reset scaler when    *)
(* its fit raised; the entries of other passes are as they were            *)
MappingAfterCall ==
    op.name \in {"scale_features", "scale_features_raised"} =>
        \A symbol \in DOMAIN outcome.scalers : \A k \in DOMAIN outcome.scalers[symbol] :
            LET now == outcome.scalers[symbol][k]
                x == SymbolValues(df.rows, symbol, k)
            IN  \/ symbol \in SymbolsOf(df) /\ k \in df.cols /\ now = partial_fit(Unfitted, x)
                \/ now = Unfitted /\ op.name = "scale_features_raised"
                \/ /\ symbol \in DOMAIN outcome.before
                   /\ k \in DOMAIN outcome.before[symbol]
                   /\ now = outcome.before[symbol][k]

=============================================================================
